---- MODULE Spec2Model ----
(***************************************************************************)
(* A model of the SCALE codec of py-scale-codec (scalecodec/types.py and   *)
(* scalecodec/block.py).                                                   *)
(*                                                                         *)
(* Bytes objects are sequences of numbers 0..255.  Python integers are     *)
(* unbounded, and the compact codec handles values up to 2^536, so an      *)
(* integer is kept as its little-endian base-256 digits without leading    *)
(* zero digits ("big"): 0 is << >>, 64 is <<64>>, 16384 is <<0, 64>>.      *)
(* A Python str is the sequence of its code points: 'ff' is <<102, 102>>.  *)
(***************************************************************************)
EXTENDS Integers, Sequences, FiniteSets, TLC

VARIABLES
    op,     \* the operation that produced the current state
    enc,    \* the CompactU32 object used as encoder: its data, the last call
    obj,    \* the decoder object as constructed: its class, arguments, data
    dec,    \* the decoder object after process(): its fields and outcome
    cls     \* the class attributes type_mapping and value_list of the classes

vars == <<op, enc, obj, dec, cls>>

-----------------------------------------------------------------------------
(* Bounds of the model *)

\* the longest integer, in bytes, handed to the compact encoder
MaxBytes == 69

\* the most bytes that follow the bytes a decoder is expected to consume
MaxExtra == 2

\* the longest value list handed to an Enum
MaxLabels == 17

\* the longest content of a Vec<u8>
MaxVec == 3

-----------------------------------------------------------------------------
(* Python integers as little-endian base-256 digits *)

Byte == 0..255

RECURSIVE BigNorm(_)
\* drops the most significant zero digits
BigNorm(s) ==
    IF s = << >> THEN << >>
    ELSE IF s[Len(s)] = 0 THEN BigNorm(SubSeq(s, 1, Len(s) - 1))
    ELSE s

\* int.from_bytes(bs, byteorder='little')
from_bytes(bs) == BigNorm(bs)

\* a <= b on normalised digit sequences
BigLeq(a, b) ==
    \/ Len(a) < Len(b)
    \/ /\ Len(a) = Len(b)
       /\ \/ a = b
          \/ \E i \in 1..Len(a) :
                /\ a[i] < b[i]
                /\ \A j \in (i + 1)..Len(a) : a[j] = b[j]

BigLess(a, b) == BigLeq(a, b) /\ a # b

\* 2 ** (8 * k)
Pow256(k) == [i \in 1..(k + 1) |-> IF i = k + 1 THEN 1 ELSE 0]

\* (v << 2) | m, for m in 0..3
ShlOr(v, m) ==
    BigNorm([i \in 1..(Len(v) + 1) |->
        (IF i <= Len(v) THEN (v[i] * 4) % 256 ELSE 0)
        + (IF i = 1 THEN m ELSE v[i - 1] \div 64)])

\* int(v / 4): the quotient is exact in floating point for the values the
\* code divides (below 2^53)
Div4(v) ==
    BigNorm([i \in 1..Len(v) |->
        (v[i] \div 4) + (IF i < Len(v) THEN (v[i + 1] % 4) * 64 ELSE 0)])

\* v.to_bytes(n, 'little'); the callers guarantee that v fits in n bytes
to_bytes(v, n) == [i \in 1..n |-> IF i <= Len(v) THEN v[i] ELSE 0]

\* a small natural number as a Python integer
RECURSIVE Big(_)
Big(n) == IF n = 0 THEN << >> ELSE <<n % 256>> \o Big(n \div 256)

\* the natural number of a Python integer of at most three digits
Small(v) ==
    (IF Len(v) >= 1 THEN v[1] ELSE 0)
    + (IF Len(v) >= 2 THEN v[2] * 256 ELSE 0)
    + (IF Len(v) >= 3 THEN v[3] * 65536 ELSE 0)

-----------------------------------------------------------------------------
(* Python str values *)

\* the code point of a hexadecimal digit: '0'..'9' are 48..57, 'a'..'f' 97..102
HexChar(d) == IF d < 10 THEN 48 + d ELSE 87 + d

\* bytes.hex()
hex(bs) ==
    [i \in 1..(2 * Len(bs)) |->
        IF i % 2 = 1 THEN HexChar(bs[(i + 1) \div 2] \div 16)
        ELSE HexChar(bs[i \div 2] % 16)]

-----------------------------------------------------------------------------
(* Decoded values *)

NoneV == [t |-> "none", v |-> << >>]
IntV(b) == [t |-> "int", v |-> b]
StrV(s) == [t |-> "str", v |-> s]
BytesV(bs) == [t |-> "bytes", v |-> bs]
ListV(l) == [t |-> "list", v |-> l]
\* a str the model keeps by its spelling (a label, a field name)
NameV(s) == [t |-> "name", v |-> s]

-----------------------------------------------------------------------------
(* ScaleBytes: a byte buffer with a read offset *)

\* ScaleBytes(data): a cursor at offset 0
ScaleBytes(bs) == [data |-> bs, offset |-> 0]

\* ScaleBytes.get_remaining_length()
get_remaining_length(c) == Len(c.data) - c.offset

\* ScaleBytes.reset()
reset(c) == [c EXCEPT !.offset = 0]

\* get_next_bytes(n): the next n bytes, the cursor advanced by n; fails with
\* BufferUnderrun, leaving the cursor, when fewer than n bytes remain
get_next_bytes(c, n) ==
    IF n > get_remaining_length(c)
    THEN [err |-> "BufferUnderrun", bytes |-> << >>, c |-> c]
    ELSE [err |-> "none",
          bytes |-> SubSeq(c.data, c.offset + 1, c.offset + n),
          c |-> [c EXCEPT !.offset = @ + n]]

-----------------------------------------------------------------------------
(* Outcomes.  Every process operator takes the cursor and gives err (the   *)
(* exception raised, or "none"), the cursor c after it and the value       *)
(* returned.  An exception ends every caller up to the outermost one.      *)

Ok(c, v) == [err |-> "none", c |-> c, value |-> v]

Fail(e, c) == [err |-> e, c |-> c, value |-> NoneV]

\* the statements K that follow a call that gave r and may have raised
Then(r, K(_)) == IF r.err # "none" THEN Fail(r.err, r.c) ELSE K(r)

-----------------------------------------------------------------------------
(* Compact: types.py, class Compact and class CompactU32 *)

\* compact_length_of with the first byte left out of the length of mode 3
compact_length_without_first(b) ==
    IF b % 4 = 0 THEN 1
    ELSE IF b % 4 = 1 THEN 2
    ELSE IF b % 4 = 2 THEN 4
    ELSE 4 + (b - 3) \div 4

\* the compact_length of first byte b, as process_compact_bytes selects it
compact_length_of(b) ==
    IF b % 4 = 0 THEN 1
    ELSE IF b % 4 = 1 THEN 2
    ELSE IF b % 4 = 2 THEN 4
    ELSE 5 + (b - 3) \div 4

\* the fields of a Compact object
CompactFields(length, bytes) == [compact_length |-> length, compact_bytes |-> bytes]

\* compact_bytes_of that keeps the first byte in every mode
compact_bytes_with_first(compact_byte, length, rest) ==
    IF rest.err # "none"
    THEN Fail(rest.err, rest.c) @@ CompactFields(length, << >>)
    ELSE Ok(rest.c, NoneV) @@ CompactFields(length, compact_byte \o rest.bytes)

\* the second half of process_compact_bytes: compact_bytes, once the bytes
\* after the first were read (rest)
compact_bytes_of(compact_byte, length, rest) ==
    IF rest.err # "none"
    THEN Fail(rest.err, rest.c) @@ CompactFields(length, << >>)
    ELSE Ok(rest.c, NoneV)
         @@ CompactFields(length, IF length \in {2, 4}
                                  THEN compact_byte \o rest.bytes
                                  ELSE rest.bytes)

\* the first half of process_compact_bytes: compact_length from the first byte
compact_length_then(first) ==
    IF first.err # "none"
    THEN Fail(first.err, first.c) @@ CompactFields(0, << >>)
    ELSE IF compact_length_of(first.bytes[1]) = 1
    THEN Ok(first.c, NoneV) @@ CompactFields(1, first.bytes)
    ELSE compact_bytes_of(first.bytes, compact_length_of(first.bytes[1]),
             get_next_bytes(first.c, compact_length_of(first.bytes[1]) - 1))

\* Compact.process_compact_bytes: the fields compact_length and compact_bytes
\* of the object and the cursor after it
process_compact_bytes(c) == compact_length_then(get_next_bytes(c, 1))

\* the value CompactU32.process returns after process_compact_bytes gave p
compact_u32_value(p) ==
    IF p.err # "none" THEN p
    ELSE [p EXCEPT !.value = IF p.compact_length <= 4
                             THEN IntV(Div4(from_bytes(p.compact_bytes)))
                             ELSE IntV(from_bytes(p.compact_bytes))]

\* CompactU32.process
CompactU32_process(c) == compact_u32_value(process_compact_bytes(c))

\* 2 ** (8 * (n - 1)) <= value < 2 ** (8 * n): the value has exactly n
\* base-256 digits
in_byte_range(value, n) == Len(value) = n

\* the byte lengths for which the loop of CompactU32.encode finds the value in range
encode_lengths(value) ==
    {bytes_length \in 5..67 : in_byte_range(value, bytes_length)}

\* the smallest member of a non-empty set of numbers
Min(S) == CHOOSE x \in S : \A y \in S : x <= y

\* encode with the mode byte of the big-integer form one length too low
encode_mode_byte_low(self_data, value) ==
    IF BigLeq(value, <<63>>)
    THEN [err |-> "none", data |-> ScaleBytes(to_bytes(ShlOr(value, 0), 1))]
    ELSE IF BigLeq(value, <<255, 63>>)
    THEN [err |-> "none", data |-> ScaleBytes(to_bytes(ShlOr(value, 1), 2))]
    ELSE IF BigLeq(value, <<255, 255, 255, 63>>)
    THEN [err |-> "none", data |-> ScaleBytes(to_bytes(ShlOr(value, 2), 4))]
    ELSE IF encode_lengths(value) = {}
    THEN [err |-> "ValueError(out of range)", data |-> self_data]
    ELSE LET bytes_length == Min(encode_lengths(value)) IN
         [err |-> "none",
          data |-> ScaleBytes(<<(bytes_length - 5) * 4 + 3>>
                              \o to_bytes(value, bytes_length))]

\* encode that empties the object's data before it looks for a byte length
encode_clears_first(self_data, value) ==
    IF BigLeq(value, <<63>>)
    THEN [err |-> "none", data |-> ScaleBytes(to_bytes(ShlOr(value, 0), 1))]
    ELSE IF BigLeq(value, <<255, 63>>)
    THEN [err |-> "none", data |-> ScaleBytes(to_bytes(ShlOr(value, 1), 2))]
    ELSE IF BigLeq(value, <<255, 255, 255, 63>>)
    THEN [err |-> "none", data |-> ScaleBytes(to_bytes(ShlOr(value, 2), 4))]
    ELSE IF encode_lengths(value) = {}
    THEN [err |-> "ValueError(out of range)", data |-> ScaleBytes(<< >>)]
    ELSE LET bytes_length == Min(encode_lengths(value)) IN
         [err |-> "none",
          data |-> ScaleBytes(<<(bytes_length - 4) * 4 + 3>>
                              \o to_bytes(value, bytes_length))]

\* CompactU32.encode(value) on an object whose data is self_data: the data of
\* the object after the call, and the error the call raised
encode(self_data, value) ==
    IF BigLeq(value, <<63>>)
    THEN [err |-> "none", data |-> ScaleBytes(to_bytes(ShlOr(value, 0), 1))]
    ELSE IF BigLeq(value, <<255, 63>>)
    THEN [err |-> "none", data |-> ScaleBytes(to_bytes(ShlOr(value, 1), 2))]
    ELSE IF BigLeq(value, <<255, 255, 255, 63>>)
    THEN [err |-> "none", data |-> ScaleBytes(to_bytes(ShlOr(value, 2), 4))]
    ELSE IF encode_lengths(value) = {}
    THEN [err |-> "ValueError(out of range)", data |-> self_data]
    ELSE LET bytes_length == Min(encode_lengths(value)) IN
         [err |-> "none",
          data |-> ScaleBytes(<<(bytes_length - 4) * 4 + 3>>
                              \o to_bytes(value, bytes_length))]

-----------------------------------------------------------------------------
(* Primitive decoders of types.py *)

\* U8.process, by get_next_u8, and U16, U32, U64, U128.process: n bytes as a
\* little-endian integer
UInt_process(c, n) ==
    Then(get_next_bytes(c, n), LAMBDA r : Ok(r.c, IntV(from_bytes(r.bytes))))

\* H256.process: '0x' and the hex of 32 bytes
H256_process(c) ==
    Then(get_next_bytes(c, 32),
         LAMBDA r : Ok(r.c, StrV(<<48, 120>> \o hex(r.bytes))))

\* Signature.process: the hex of 64 bytes
Signature_process(c) ==
    Then(get_next_bytes(c, 64), LAMBDA r : Ok(r.c, StrV(hex(r.bytes))))

\* Era.process: '00', or the hex of the first byte and of one more
Era_process(c) ==
    Then(get_next_bytes(c, 1), LAMBDA option_byte :
        IF hex(option_byte.bytes) = <<48, 48>>
        THEN Ok(option_byte.c, StrV(hex(option_byte.bytes)))
        ELSE Then(get_next_bytes(option_byte.c, 1), LAMBDA n :
                 Ok(n.c, StrV(hex(option_byte.bytes) \o hex(n.bytes)))))

\* get_next_bytes with the length a decoded integer: a length of more than
\* two digits is more than any buffer of the model holds
get_next_bytes_int(c, length) ==
    get_next_bytes(c, IF Len(length) > 2 THEN 65536 ELSE Small(length))

-----------------------------------------------------------------------------
(* bytes.decode(): strict UTF-8 *)

IsCont(bs, i, lo, hi) == i <= Len(bs) /\ bs[i] >= lo /\ bs[i] <= hi

\* the number of bytes of the well-formed UTF-8 sequence that starts at i
\* with byte b, or 0 when there is none (UnicodeDecodeError)
Utf8Width(bs, i, b) ==
    IF b < 128 THEN 1
    ELSE IF b >= 194 /\ b <= 223
    THEN IF IsCont(bs, i + 1, 128, 191) THEN 2 ELSE 0
    ELSE IF b >= 224 /\ b <= 239
    THEN IF /\ IsCont(bs, i + 1, IF b = 224 THEN 160 ELSE 128,
                                 IF b = 237 THEN 159 ELSE 191)
            /\ IsCont(bs, i + 2, 128, 191)
         THEN 3 ELSE 0
    ELSE IF b >= 240 /\ b <= 244
    THEN IF /\ IsCont(bs, i + 1, IF b = 240 THEN 144 ELSE 128,
                                 IF b = 244 THEN 143 ELSE 191)
            /\ IsCont(bs, i + 2, 128, 191)
            /\ IsCont(bs, i + 3, 128, 191)
         THEN 4 ELSE 0
    ELSE 0

\* the code point of the well-formed sequence of w bytes at i
Utf8CodePoint(bs, i, w) ==
    IF w = 1 THEN bs[i]
    ELSE IF w = 2 THEN (bs[i] - 192) * 64 + (bs[i + 1] - 128)
    ELSE IF w = 3
    THEN (bs[i] - 224) * 4096 + (bs[i + 1] - 128) * 64 + (bs[i + 2] - 128)
    ELSE (bs[i] - 240) * 262144 + (bs[i + 1] - 128) * 4096
         + (bs[i + 2] - 128) * 64 + (bs[i + 3] - 128)

RECURSIVE Utf8From(_, _)
RECURSIVE Utf8Step(_, _, _)
\* the code points of bs from position i on, with -1 last where the bytes
\* stop being UTF-8
Utf8From(bs, i) ==
    IF i > Len(bs) THEN << >> ELSE Utf8Step(bs, i, Utf8Width(bs, i, bs[i]))

Utf8Step(bs, i, w) ==
    IF w = 0 THEN <<-1>>
    ELSE <<Utf8CodePoint(bs, i, w)>> \o Utf8From(bs, i + w)

\* whether value.decode() of these code points raised UnicodeDecodeError
Undecodable(cps) == cps # << >> /\ cps[Len(cps)] = -1

\* text_or_hex without the attempt to decode
hex_only(value, cps) == StrV(hex(value))

\* try: value.decode() except UnicodeDecodeError: value.hex()
text_or_hex(value, cps) ==
    IF Undecodable(cps) THEN StrV(hex(value)) ELSE StrV(cps)

\* Bytes.process: a Compact<u32> length, that many bytes, as text or as hex
Bytes_process(c) ==
    Then(CompactU32_process(c), LAMBDA length :
        Then(get_next_bytes_int(length.c, length.value.v), LAMBDA r :
            Ok(r.c, text_or_hex(r.bytes, Utf8From(r.bytes, 1)))))

\* VecU8Length4.process: 4 bytes, as text or as hex
VecU8Length4_process(c) ==
    Then(get_next_bytes(c, 4), LAMBDA r :
        Ok(r.c, text_or_hex(r.bytes, Utf8From(r.bytes, 1))))

-----------------------------------------------------------------------------
(* Address *)

AddressFields(length, id, index, idx) ==
    [account_length |-> length, account_id |-> id, account_index |-> index,
     account_idx |-> idx]

\* the 0xff branch of Address.process, the 32 bytes read (id)
address_id(account_length, id) ==
    IF id.err # "none"
    THEN Fail(id.err, id.c)
         @@ AddressFields(BytesV(account_length), NoneV, NoneV, NoneV)
    ELSE Ok(id.c, StrV(hex(id.bytes)))
         @@ AddressFields(StrV(hex(account_length)), StrV(hex(id.bytes)),
                          NoneV, NoneV)

\* the else branch of Address.process, the bytes of the index read
address_index(account_length, account_index) ==
    IF account_index.err # "none"
    THEN Fail(account_index.err, account_index.c)
         @@ AddressFields(BytesV(account_length), NoneV, NoneV, NoneV)
    ELSE Ok(account_index.c, StrV(hex(account_index.bytes)))
         @@ AddressFields(StrV(hex(account_length)), NoneV,
                          StrV(hex(account_index.bytes)),
                          IntV(from_bytes(account_index.bytes)))

\* address_branch with the index of marker 0xfd as short as that of 0xfc
address_branch_short_fd(m) ==
    IF m.err # "none"
    THEN Fail(m.err, m.c) @@ AddressFields(NoneV, NoneV, NoneV, NoneV)
    ELSE IF m.bytes = <<255>> THEN address_id(m.bytes, get_next_bytes(m.c, 32))
    ELSE IF m.bytes \in {<<252>>, <<253>>}
    THEN address_index(m.bytes, get_next_bytes(m.c, 2))
    ELSE IF m.bytes = <<254>> THEN address_index(m.bytes, get_next_bytes(m.c, 8))
    ELSE address_index(m.bytes, m)

\* Address.process after the marker byte was read
address_branch(m) ==
    IF m.err # "none"
    THEN Fail(m.err, m.c) @@ AddressFields(NoneV, NoneV, NoneV, NoneV)
    ELSE IF m.bytes = <<255>> THEN address_id(m.bytes, get_next_bytes(m.c, 32))
    ELSE IF m.bytes = <<252>> THEN address_index(m.bytes, get_next_bytes(m.c, 2))
    ELSE IF m.bytes = <<253>> THEN address_index(m.bytes, get_next_bytes(m.c, 4))
    ELSE IF m.bytes = <<254>> THEN address_index(m.bytes, get_next_bytes(m.c, 8))
    ELSE address_index(m.bytes, m)

\* Address.process: the fields of the object, the cursor and the value
Address_process(c) == address_branch(get_next_bytes(c, 1))

-----------------------------------------------------------------------------
(* The registry and the composite decoders *)

\* the class and the sub-type a type string resolves to: a class that
\* declares the whole string as its type_string, else the class named before
\* '<' with what stands between the brackets as sub_type ("" is no sub-type)
decoder_class(type_string) ==
    CASE type_string = "Compact<u32>" -> [class |-> "CompactU32", sub_type |-> ""]
      [] type_string = "Vec<u8>" -> [class |-> "Bytes", sub_type |-> ""]
      [] type_string = "Bytes" -> [class |-> "Bytes", sub_type |-> ""]
      [] type_string = "Option<Vec<u8>>" -> [class |-> "OptionBytes", sub_type |-> ""]
      [] type_string \in {"u8", "U8"} -> [class |-> "U8", sub_type |-> ""]
      [] type_string \in {"u16", "U16"} -> [class |-> "U16", sub_type |-> ""]
      [] type_string \in {"u32", "U32"} -> [class |-> "U32", sub_type |-> ""]
      [] type_string \in {"u64", "U64"} -> [class |-> "U64", sub_type |-> ""]
      [] type_string = "Balance" -> [class |-> "U128", sub_type |-> ""]
      [] type_string \in {"Hash", "AccountId", "SessionKey"} ->
            [class |-> "H256", sub_type |-> ""]
      [] type_string = "ConsensusEngineId" ->
            [class |-> "VecU8Length4", sub_type |-> ""]
      [] type_string = "Signature" -> [class |-> "Signature", sub_type |-> ""]
      [] type_string = "Era" -> [class |-> "Era", sub_type |-> ""]
      [] type_string = "Address" -> [class |-> "Address", sub_type |-> ""]
      [] type_string = "Compact" -> [class |-> "Compact", sub_type |-> ""]
      [] type_string = "Compact<U64>" -> [class |-> "Compact", sub_type |-> "U64"]
      [] type_string = "Compact<U32>" -> [class |-> "Compact", sub_type |-> "U32"]
      [] type_string = "Compact<Balance>" -> [class |-> "Compact", sub_type |-> "Balance"]
      [] type_string = "Option<u8>" -> [class |-> "Option", sub_type |-> "u8"]
      [] type_string = "Option<U16>" -> [class |-> "Option", sub_type |-> "U16"]
      [] type_string = "Vec<U16>" -> [class |-> "Vec", sub_type |-> "U16"]
      [] type_string = "Vec<Hash>" -> [class |-> "Vec", sub_type |-> "Hash"]
      [] OTHER -> [class |-> "unknown", sub_type |-> ""]

\* process_type for a class that is no composite.  The sub-types and the
\* element types of the model are such, so that the recursion of
\* process_type through Option, Vec and Compact is unfolded once.
process_class(class, c) ==
    CASE class = "CompactU32" -> CompactU32_process(c)
      [] class = "Bytes" -> Bytes_process(c)
      [] class = "VecU8Length4" -> VecU8Length4_process(c)
      [] class = "U8" -> UInt_process(c, 1)
      [] class = "U16" -> UInt_process(c, 2)
      [] class = "U32" -> UInt_process(c, 4)
      [] class = "U64" -> UInt_process(c, 8)
      [] class = "U128" -> UInt_process(c, 16)
      [] class = "H256" -> H256_process(c)
      [] class = "Signature" -> Signature_process(c)
      [] class = "Era" -> Era_process(c)
      [] class = "Address" -> Address_process(c)
      [] OTHER -> Fail("UnknownType", c)

process_sub_type(type_string, c) == process_class(decoder_class(type_string).class, c)

\* obj.value of the object process_type returned
value_of(r) == Then(r, LAMBDA x : Ok(x.c, x.value))

\* Option.process with 0x01 the only presence byte
Option_process_only_01(c, sub_type) ==
    Then(get_next_bytes(c, 1), LAMBDA option_byte :
        IF sub_type # "" /\ option_byte.bytes = <<1>>
        THEN value_of(process_sub_type(sub_type, option_byte.c))
        ELSE Ok(option_byte.c, NoneV))

\* Option.process
Option_process(c, sub_type) ==
    Then(get_next_bytes(c, 1), LAMBDA option_byte :
        IF sub_type # "" /\ option_byte.bytes # <<0>>
        THEN value_of(process_sub_type(sub_type, option_byte.c))
        ELSE Ok(option_byte.c, NoneV))

\* OptionBytes.process
OptionBytes_process(c) ==
    Then(get_next_bytes(c, 1), LAMBDA option_byte :
        IF option_byte.bytes # <<0>>
        THEN value_of(process_sub_type("Bytes", option_byte.c))
        ELSE Ok(option_byte.c, NoneV))

\* result.append(element.value), or the exception a later element raised
prepend(v, more) ==
    IF more.err # "none" THEN more ELSE Ok(more.c, <<v>> \o more.value)

RECURSIVE Vec_elements(_, _, _)
\* the loop of Vec.process: count more elements of sub_type from cursor c
Vec_elements(c, sub_type, count) ==
    IF count = 0 THEN Ok(c, << >>)
    ELSE Then(process_sub_type(sub_type, c), LAMBDA element :
             prepend(element.value, Vec_elements(element.c, sub_type, count - 1)))

\* Vec.process
Vec_process(c, sub_type) ==
    Then(process_sub_type("Compact<u32>", c), LAMBDA element_count :
        Then(Vec_elements(element_count.c, sub_type,
                          IF Len(element_count.value.v) > 2 THEN 65536
                          ELSE Small(element_count.value.v)),
             LAMBDA r : Ok(r.c, ListV(r.value))))

\* what Compact.process returns when the sub-type gave byte_data from the
\* compact bytes
compact_value(p, byte_data) ==
    IF byte_data.err # "none"
    THEN [p EXCEPT !.err = byte_data.err]
    ELSE IF byte_data.value.t = "int" /\ p.compact_length <= 4
    THEN [p EXCEPT !.value = IntV(Div4(byte_data.value.v))]
    ELSE [p EXCEPT !.value = byte_data.value]

\* Compact.process after process_compact_bytes gave p
compact_sub_type(p, sub_type) ==
    IF p.err # "none" THEN p
    ELSE IF sub_type # ""
    THEN compact_value(p, process_sub_type(sub_type, ScaleBytes(p.compact_bytes)))
    ELSE [p EXCEPT !.value = BytesV(p.compact_bytes)]

\* Compact.process with the given sub_type
Compact_process(c, sub_type) == compact_sub_type(process_compact_bytes(c), sub_type)

\* the decoder of a class with its sub-type
process_composite(d, c) ==
    CASE d.class = "Compact" -> Compact_process(c, d.sub_type)
      [] d.class = "OptionBytes" -> OptionBytes_process(c)
      [] d.class = "Option" -> Option_process(c, d.sub_type)
      [] d.class = "Vec" -> Vec_process(c, d.sub_type)
      [] OTHER -> process_class(d.class, c)

\* process_type(type_string): the decoder class of the type string is made
\* on the shared cursor and decodes; an unknown name fails with UnknownType
process_type(type_string, c) == process_composite(decoder_class(type_string), c)

RECURSIVE Struct_fields(_, _)
\* the loop of Struct.process over type_mapping, a sequence of <<key, type>>
Struct_fields(c, type_mapping) ==
    IF type_mapping = << >> THEN Ok(c, << >>)
    ELSE Then(process_type(type_mapping[1][2], c), LAMBDA field :
             prepend(<<type_mapping[1][1], field.value>>,
                     Struct_fields(field.c, Tail(type_mapping))))

\* Struct.process: the value is the sequence of <<key, value>> in field order
Struct_process(c, type_mapping) ==
    Then(Struct_fields(c, type_mapping),
         LAMBDA r : Ok(r.c, [t |-> "dict", v |-> r.value]))

\* int(s) of a str: the decimal number the characters spell; ok is FALSE
\* where a character is no decimal digit (ValueError: invalid literal)
RECURSIVE int_of_str(_)
int_of_str(s) ==
    IF s = << >> THEN [ok |-> TRUE, n |-> 0]
    ELSE IF s[Len(s)] < 48 \/ s[Len(s)] > 57 THEN [ok |-> FALSE, n |-> 0]
    ELSE [ok |-> int_of_str(SubSeq(s, 1, Len(s) - 1)).ok,
          n |-> int_of_str(SubSeq(s, 1, Len(s) - 1)).n * 10 + (s[Len(s)] - 48)]

\* Enum.process once self.index is known
enum_variant(index, c, value_list, type_mapping) ==
    IF ~index.ok THEN Fail("ValueError(invalid literal)", c) @@ [index |-> -1]
    ELSE IF type_mapping # << >>
    THEN (IF index.n >= Len(type_mapping)
          THEN Fail("ValueError(Index not present)", c)
          ELSE Struct_process(c, <<type_mapping[index.n + 1]>>))
         @@ [index |-> index.n]
    ELSE (IF index.n >= Len(value_list)
          THEN Fail("ValueError(Index not present)", c)
          ELSE Ok(c, NameV(value_list[index.n + 1])))
         @@ [index |-> index.n]

\* Enum.process of an object with the given value_list and type_mapping
\* (<< >> is a type_mapping of None)
Enum_process(c, value_list, type_mapping) ==
    Then(get_next_bytes(c, 1), LAMBDA b :
        enum_variant(int_of_str(hex(b.bytes)), b.c, value_list, type_mapping))
    @@ [index |-> -1]


-----------------------------------------------------------------------------
(* Class attributes and instance attributes of Struct and Enum *)

\* the attributes the class statements give: Enum has value_list = [] and
\* type_mapping = None (<< >> for both), RewardDestination its value_list,
\* ShardInfo its type_mapping
ClassAttributes ==
    [class \in {"Enum", "RewardDestination", "ShardInfo"} |->
        [value_list |-> IF class = "RewardDestination"
                        THEN <<"Staked", "Stash", "Controller">>
                        ELSE << >>,
         type_mapping |-> IF class = "ShardInfo"
                          THEN <<<<"num", "U16">>, <<"count", "U16">>>>
                          ELSE << >>]]

\* a dict without entries
NoAttributes == [name \in {} |-> << >>]

\* `if argument:` of an argument that is None or a list
given(argument) == argument.t # "none" /\ argument.v # << >>

\* Struct.__init__ with the table given put on the class
Struct_init_on_class(attributes, class, type_mapping) ==
    [cls |-> IF given(type_mapping)
             THEN [attributes EXCEPT ![class].type_mapping = type_mapping.v]
             ELSE attributes,
     self |-> NoAttributes]

\* Struct.__init__(data, type_mapping): the attributes of the classes and
\* of the new object after it
Struct_init(attributes, class, type_mapping) ==
    [cls |-> attributes,
     self |-> IF given(type_mapping)
              THEN ("type_mapping" :> type_mapping.v)
              ELSE NoAttributes]

\* Enum.__init__(data, value_list, type_mapping)
Enum_init(attributes, class, value_list, type_mapping) ==
    [cls |-> attributes,
     self |-> (IF given(type_mapping)
               THEN ("type_mapping" :> type_mapping.v)
               ELSE NoAttributes)
              @@ (IF given(value_list)
                  THEN ("value_list" :> value_list.v)
                  ELSE NoAttributes)]

\* self.<name>: the attribute of the object, else that of its class
attribute_of(attributes, class, self, name) ==
    IF name \in DOMAIN self THEN self[name] ELSE attributes[class][name]
-----------------------------------------------------------------------------
(* The compact codec as a state machine: a CompactU32 object is made on an *)
(* empty buffer and encodes a value (as generate_hash does), and a second  *)
(* object decodes what the first wrote.                                    *)

\* the digits that put a value on either side of each range boundary
Boundary(n) ==
    {[i \in 1..n |-> IF i = n THEN top ELSE fill] :
        top \in {1, 64, 255}, fill \in {0, 255}}

\* the values the specification of the compact codec names
NamedValues ==
    {<< >>, <<63>>, <<64>>, <<255, 63>>, <<0, 64>>, <<255, 255, 255, 63>>,
     <<0, 0, 0, 64>>, [i \in 1..8 |-> 255],
     [i \in 1..38 |-> IF i = 38 THEN 16 ELSE 0]}

\* the values handed to the encoder: every length up to MaxBytes
EncodeValues == NamedValues \cup UNION {Boundary(n) : n \in 1..MaxBytes}

NoObject == [kind |-> "none"]

\* an object of class kind constructed on the bytes data
Object(kind, data) ==
    [kind |-> kind, data |-> data, type_string |-> "", sub_type |-> "",
     value_list |-> << >>, type_mapping |-> << >>]

NewEncoder == [value |-> << >>, err |-> "none", data |-> ScaleBytes(<< >>)]

InitCompact ==
    /\ op = "new"
    /\ enc = NewEncoder
    /\ obj = Object("CompactU32", << >>)
    /\ dec = NoObject
    /\ cls = ClassAttributes

\* CompactU32(ScaleBytes(bytearray())).encode(v): a new encoder, and no
\* decoder made on its output yet
EncodeNew(v) ==
    /\ op' = "encode"
    /\ enc' = [value |-> v] @@ encode(NewEncoder.data, v)
    /\ obj' = Object("CompactU32", << >>)
    /\ dec' = NoObject
    /\ UNCHANGED cls

\* CompactU32(the encoder's data).process() after an encode that returned
DecodeEncoded ==
    /\ op = "encode"
    /\ enc.err = "none"
    /\ op' = "decode"
    /\ obj' = Object("CompactU32", enc.data.data)
    /\ dec' = CompactU32_process(ScaleBytes(enc.data.data))
    /\ UNCHANGED <<enc, cls>>

NextCompact ==
    \/ \E v \in EncodeValues : EncodeNew(v)
    \/ DecodeEncoded

SpecCompact == InitCompact /\ [][NextCompact]_vars

-----------------------------------------------------------------------------
(* One CompactU32 object that encodes one value after another: what a call *)
(* finds in the object's data is what the previous calls left there.       *)

\* the lengths, in bytes, of the values handed to the long-lived encoder
EncoderLengths == (1..5) \cup ((MaxBytes - 3)..MaxBytes)

EncoderValues == {<< >>, <<63>>} \cup UNION {Boundary(n) : n \in EncoderLengths}

\* CompactU32.encode(v) on the encoder object
Encode(v) ==
    /\ op' = "encode"
    /\ enc' = [value |-> v] @@ encode(enc.data, v)
    /\ UNCHANGED <<obj, dec, cls>>

NextEncoder == \E v \in EncoderValues : Encode(v)

SpecEncoder == InitCompact /\ [][NextEncoder]_vars

-----------------------------------------------------------------------------
(* The decoders of types.py as a state machine: an object of one class is  *)
(* constructed on a byte buffer, then its process() runs once.             *)

\* the total length, first byte included, the compact format gives an
\* encoding that starts with byte b
CompactTotal(b) ==
    CASE b % 4 = 0 -> 1
      [] b % 4 = 1 -> 2
      [] b % 4 = 2 -> 4
      [] OTHER -> 5 + (b - 3) \div 4

\* n bytes that differ from place to place and from seed to seed
Pattern(seed, n) == [i \in 1..n |-> (i * 37 + seed) % 256]

Ones(n) == [i \in 1..n |-> 255]

\* buffers for CompactU32: every first byte, followed by too few, exactly
\* enough and more than enough bytes
CompactBuffers ==
    UNION {UNION {{<<b>> \o Pattern(b, n), <<b>> \o Ones(n)} :
                      n \in {k \in (CompactTotal(b) - 2)..(CompactTotal(b) - 1 + MaxExtra) :
                                k >= 0}} :
              b \in Byte}

LogDigestList ==
    <<"Other", "AuthoritiesChange", "ChangesTrieRoot", "Seal", "Consensus",
      "SealV0", "PreRuntime">>

LabelNames ==
    <<"V0", "V1", "V2", "V3", "V4", "V5", "V6", "V7", "V8", "V9", "V10", "V11",
      "V12", "V13", "V14", "V15", "V16", "V17", "V18", "V19", "V20", "V21">>

\* the value lists handed to Enum objects
ValueLists ==
    {<<"A", "B">>, LogDigestList, SubSeq(LabelNames, 1, MaxLabels)}

EnumObjects ==
    {[Object("Enum", <<b>> \o Pattern(b, n)) EXCEPT !.value_list = vl] :
        b \in Byte, n \in 0..MaxExtra, vl \in ValueLists}
    \cup {[Object("Enum", << >>) EXCEPT !.value_list = <<"A", "B">>]}

OptionObjects ==
    {[Object("Option", <<b>> \o SubSeq(<<42>> \o Pattern(b, MaxExtra), 1, n))
          EXCEPT !.sub_type = st] :
        b \in Byte, n \in 0..(MaxExtra + 1), st \in {"u8", "U16"}}

\* length-prefixed byte strings: text, bytes that are not UTF-8, cut short
ByteStrings ==
    {<< >>, <<0>>, <<8, 65, 66>>, <<8, 65, 66, 67>>, <<4, 255>>, <<8, 65>>,
     <<12, 1, 2, 3>>}

OptionBytesObjects ==
    {Object("OptionBytes", <<b>> \o bs) : b \in {0, 1, 2, 128, 255}, bs \in ByteStrings}
    \cup {Object("OptionBytes", << >>)}

\* the number of bytes that follow an address marker
AddressExtra(m) ==
    CASE m = 255 -> 32
      [] m = 252 -> 2
      [] m = 253 -> 4
      [] m = 254 -> 8
      [] OTHER -> 0

\* a marker and the bytes that follow it: one too few, just enough, and up
\* to MaxExtra more
AddressBuffers(m) ==
    UNION {{<<m>> \o Pattern(m, n), <<m>> \o [i \in 1..n |-> IF i = 1 THEN 1 ELSE 0]} :
              n \in {k \in (AddressExtra(m) - 1)..(AddressExtra(m) + MaxExtra) : k >= 0}}

AddressObjects ==
    {Object("Address", bs) : bs \in UNION {AddressBuffers(m) : m \in Byte}}
    \cup {Object("Address", << >>)}

\* sequences over S of length n
RECURSIVE SeqsOfLen(_, _)
SeqsOfLen(S, n) ==
    IF n = 0 THEN {<< >>}
    ELSE {<<x>> \o t : x \in S, t \in SeqsOfLen(S, n - 1)}

\* contents of a byte vector: small numbers, a letter, the two bytes of a
\* two-byte UTF-8 character, a byte no UTF-8 text holds
VecContents ==
    {<<1, 2, 3>>, <<65, 66>>}
    \cup UNION {SeqsOfLen({2, 195, 169, 255}, n) : n \in 0..MaxVec}

\* type strings decoded through the registry, on a length prefix (right or
\* wrong) and a content
TypeObjects ==
    {[Object("type", <<4 * n>> \o content \o extra) EXCEPT !.type_string = ts] :
        n \in 0..(MaxVec + 1), content \in VecContents,
        extra \in {Ones(k) : k \in {0, MaxExtra}},
        ts \in {"Vec<u8>", "Bytes", "Vec<U16>"}}

\* the Compact class made through the registry on the buffers of
\* CompactU32: without a sub-type, and with the unsigned integers as sub-type
CompactTypeObjects ==
    {[Object("type", bs) EXCEPT !.type_string = ts] :
        bs \in CompactBuffers,
        ts \in {"Compact", "Compact<U32>", "Compact<U64>", "Compact<Balance>"}}

DecodeObjects ==
    {Object("CompactU32", bs) : bs \in CompactBuffers}
    \cup EnumObjects \cup OptionObjects \cup OptionBytesObjects
    \cup AddressObjects \cup TypeObjects \cup CompactTypeObjects

InitDecode ==
    /\ op = "new"
    /\ enc = NewEncoder
    /\ obj \in DecodeObjects
    /\ dec = NoObject
    /\ cls = ClassAttributes

\* runs process() of the constructed object, which gives result
Process(kind, result) ==
    /\ op = "new"
    /\ obj.kind = kind
    /\ op' = "process"
    /\ dec' = result
    /\ UNCHANGED <<enc, obj, cls>>

CompactU32Process == Process("CompactU32", CompactU32_process(ScaleBytes(obj.data)))

EnumProcess ==
    Process("Enum", Enum_process(ScaleBytes(obj.data), obj.value_list, obj.type_mapping))

OptionProcess == Process("Option", Option_process(ScaleBytes(obj.data), obj.sub_type))

OptionBytesProcess == Process("OptionBytes", OptionBytes_process(ScaleBytes(obj.data)))

AddressProcess == Process("Address", Address_process(ScaleBytes(obj.data)))

\* get_decoder_class(type_string, data) and its decode
TypeProcess == Process("type", process_type(obj.type_string, ScaleBytes(obj.data)))

NextDecode ==
    \/ CompactU32Process
    \/ EnumProcess
    \/ OptionProcess
    \/ OptionBytesProcess
    \/ AddressProcess
    \/ TypeProcess

SpecDecode == InitDecode /\ [][NextDecode]_vars

-----------------------------------------------------------------------------
(* ExtrinsicsDecoder: block.py *)

\* the call-index table of the metadata: the call's module, the call's name
\* and the call's arguments (name and type string) by the hex of the 2-byte
\* call index
call_index_table ==
    (hex(<<0, 0>>) :>
        [module |-> "timestamp", name |-> "set",
         args |-> <<[name |-> "now", type |-> "Compact<u32>"]>>])
    @@ (hex(<<1, 0>>) :>
        [module |-> "balances", name |-> "transfer",
         args |-> <<[name |-> "dest", type |-> "Address"],
                    [name |-> "value", type |-> "Compact<u32>"]>>])
    @@ (hex(<<2, 0>>) :>
        [module |-> "system", name |-> "remark", args |-> << >>])

\* blake2b(extrinsic_data, digest_size=32).digest().hex(): the digest is kept
\* by the bytes it was taken of
blake2b(extrinsic_data) == [t |-> "blake2b", v |-> extrinsic_data]

\* the value of a hexadecimal digit given by its code point, -1 for other
\* characters
HexDigit(ch) ==
    IF ch >= 48 /\ ch <= 57 THEN ch - 48
    ELSE IF ch >= 97 /\ ch <= 102 THEN ch - 87
    ELSE -1

\* int(s, 16) of the hex of one byte
int16(s) == HexDigit(s[1]) * 16 + HexDigit(s[2])

\* ExtrinsicsDecoder.__init__: the attributes of the object made on data
ExtrinsicsDecoder_init(data) ==
    [err |-> "none", c |-> ScaleBytes(data),
     extrinsic_length |-> NoneV, extrinsic_hash |-> NoneV,
     version_info |-> NoneV, contains_transaction |-> FALSE,
     address |-> NoneV, signature |-> NoneV, nonce |-> NoneV, era |-> NoneV,
     tip |-> NoneV, call_index |-> NoneV, call_module |-> NoneV,
     call |-> NoneV, params_raw |-> NoneV, params |-> << >>,
     result |-> NoneV]

\* the statements K that follow on the object x, unless x raised
Run(x, K(_)) == IF x.err # "none" THEN x ELSE K(x)

\* the object x after a call on its cursor that raised in r
Raised(x, r) == [x EXCEPT !.err = r.err, !.c = r.c]

\* self.<attribute> = self.process_type(...), r the outcome of process_type
\* on the cursor of x; the attribute keeps the value of the decoded object
set_attribute(x, attribute, r) ==
    IF r.err # "none" THEN Raised(x, r)
    ELSE [x EXCEPT !.c = r.c, ![attribute] = r.value]

\* self.address = self.process_type('Address'): the attribute keeps the
\* fields of the Address object
set_address(x, r) ==
    IF r.err # "none" THEN Raised(x, r)
    ELSE [x EXCEPT !.c = r.c,
                   !.address = AddressFields(r.account_length, r.account_id,
                                             r.account_index, r.account_idx)]

\* hash_with_length with the length put after the data
hash_with_length_behind(x, length_type) ==
    IF length_type.err # "none" THEN [x EXCEPT !.err = length_type.err]
    ELSE [x EXCEPT !.extrinsic_hash =
                       blake2b(x.c.data \o length_type.data.data)]

\* the bytes generate_hash hashes when the length has to be put before the
\* data: length_type is the outcome of CompactU32.encode(self.data.length)
hash_with_length(x, length_type) ==
    IF length_type.err # "none" THEN [x EXCEPT !.err = length_type.err]
    ELSE [x EXCEPT !.extrinsic_hash =
                       blake2b(length_type.data.data \o x.c.data)]

\* generate_hash that never puts the length before the data
generate_hash_data_only(x) ==
    IF ~x.contains_transaction THEN [x EXCEPT !.extrinsic_hash = NoneV]
    ELSE [x EXCEPT !.extrinsic_hash = blake2b(x.c.data)]

\* self.extrinsic_hash = self.generate_hash()
generate_hash(x) ==
    IF ~x.contains_transaction THEN [x EXCEPT !.extrinsic_hash = NoneV]
    ELSE IF x.extrinsic_length # NoneV /\ x.extrinsic_length.v # << >>
    THEN [x EXCEPT !.extrinsic_hash = blake2b(x.c.data)]
    ELSE hash_with_length(x, encode(ScaleBytes(<< >>), Big(Len(x.c.data))))

\* lines 76 to 81: the leading Compact<u32>, given up when it is not the
\* number of bytes that remain
extrinsic_length_step(x, r) ==
    IF r.err # "none" THEN Raised(x, r)
    ELSE IF r.value.v # Big(get_remaining_length(r.c))
    THEN [x EXCEPT !.extrinsic_length = NoneV, !.c = reset(r.c)]
    ELSE [x EXCEPT !.extrinsic_length = r.value, !.c = r.c]

\* version_step with the lowest bit of the version byte taken for the
\* signed bit
version_step_low_bit(x, r) ==
    IF r.err # "none" THEN Raised(x, r)
    ELSE [x EXCEPT !.c = r.c,
                   !.version_info = StrV(hex(r.bytes)),
                   !.contains_transaction = int16(hex(r.bytes)) % 2 = 1]

\* lines 83 to 85: version_info and contains_transaction
version_step(x, r) ==
    IF r.err # "none" THEN Raised(x, r)
    ELSE [x EXCEPT !.c = r.c,
                   !.version_info = StrV(hex(r.bytes)),
                   !.contains_transaction = int16(hex(r.bytes)) >= 80]

\* self.call_index = self.get_next_bytes(2).hex()
call_index_step(x, r) ==
    IF r.err # "none" THEN Raised(x, r)
    ELSE [x EXCEPT !.c = r.c, !.call_index = StrV(hex(r.bytes))]

\* lines 88 to 100: version '01' or '81'
version_1(x) ==
    IF x.contains_transaction
    THEN Run(set_address(x, process_type("Address", x.c)), LAMBDA a :
         Run(set_attribute(a, "signature", process_type("Signature", a.c)), LAMBDA s :
         Run(set_attribute(s, "nonce", process_type("Compact<u32>", s.c)), LAMBDA n :
         Run(set_attribute(n, "era", process_type("Era", n.c)), LAMBDA e :
         Run(generate_hash(e), LAMBDA h :
         call_index_step(h, get_next_bytes(h.c, 2)))))))
    ELSE call_index_step(x, get_next_bytes(x.c, 2))

\* version_2 with the nonce read where version 1 has it, before the era
version_2_nonce_first(x) ==
    IF x.contains_transaction
    THEN Run(set_address(x, process_type("Address", x.c)), LAMBDA a :
         Run(set_attribute(a, "signature", process_type("Signature", a.c)), LAMBDA s :
         Run(set_attribute(s, "nonce", process_type("Compact<U64>", s.c)), LAMBDA n :
         Run(set_attribute(n, "era", process_type("Era", n.c)), LAMBDA e :
         Run(set_attribute(e, "tip", process_type("Compact<Balance>", e.c)), LAMBDA t :
         Run(generate_hash(t), LAMBDA h :
         call_index_step(h, get_next_bytes(h.c, 2))))))))
    ELSE call_index_step(x, get_next_bytes(x.c, 2))

\* lines 103 to 117 and 120 to 134: versions '02', '82', '03', '83'
version_2(x) ==
    IF x.contains_transaction
    THEN Run(set_address(x, process_type("Address", x.c)), LAMBDA a :
         Run(set_attribute(a, "signature", process_type("Signature", a.c)), LAMBDA s :
         Run(set_attribute(s, "era", process_type("Era", s.c)), LAMBDA e :
         Run(set_attribute(e, "nonce", process_type("Compact<U64>", e.c)), LAMBDA n :
         Run(set_attribute(n, "tip", process_type("Compact<Balance>", n.c)), LAMBDA t :
         Run(generate_hash(t), LAMBDA h :
         call_index_step(h, get_next_bytes(h.c, 2))))))))
    ELSE call_index_step(x, get_next_bytes(x.c, 2))

\* the version_info strings '01', '81', '02', '82', '03', '83'
V1Info == {hex(<<1>>), hex(<<129>>)}
V2Info == {hex(<<2>>), hex(<<130>>), hex(<<3>>), hex(<<131>>)}

\* version_branch with every other version decoded as version 1
version_branch_default_1(x) ==
    IF x.version_info.v \in V2Info THEN version_2(x) ELSE version_1(x)

\* lines 87 to 137: the branch on version_info
version_branch(x) ==
    IF x.version_info.v \in V1Info THEN version_1(x)
    ELSE IF x.version_info.v \in V2Info THEN version_2(x)
    ELSE [x EXCEPT !.err = "NotImplementedError"]

\* append_param that puts the entry before the entries of the earlier
\* arguments
append_param_in_front(x, arg, r) ==
    IF r.err # "none" THEN Raised(x, r)
    ELSE [x EXCEPT !.c = r.c,
                   !.params = <<[name |-> arg.name, type |-> arg.type,
                                 value |-> r.value,
                                 valueRaw |-> StrV(hex(SubSeq(x.c.data,
                                                            x.c.offset + 1,
                                                            r.c.offset)))]>> \o @]

\* self.params.append(...) for the argument arg decoded with outcome r
append_param(x, arg, r) ==
    IF r.err # "none" THEN Raised(x, r)
    ELSE [x EXCEPT !.c = r.c,
                   !.params = Append(@, [name |-> arg.name, type |-> arg.type,
                                         value |-> r.value,
                                         valueRaw |-> StrV(hex(SubSeq(x.c.data,
                                                                    x.c.offset + 1,
                                                                    r.c.offset)))])]

RECURSIVE call_args(_, _)
\* for arg in self.call.args
call_args(x, args) ==
    IF args = << >> THEN x
    ELSE Run(append_param(x, args[1], process_type(args[1].type, x.c)),
             LAMBDA y : call_args(y, Tail(args)))

\* lines 139 to 163: the call of the metadata and its parameters
call_step(x) ==
    IF x.call_index.v \notin DOMAIN call_index_table
    THEN [x EXCEPT !.err = "KeyError",
                   !.params_raw = BytesV(SubSeq(x.c.data, x.c.offset + 1,
                                                Len(x.c.data)))]
    ELSE call_args([x EXCEPT !.params_raw = BytesV(SubSeq(x.c.data, x.c.offset + 1,
                                                         Len(x.c.data))),
                             !.call = NameV(call_index_table[x.call_index.v].name),
                             !.call_module =
                                 NameV(call_index_table[x.call_index.v].module)],
                   call_index_table[x.call_index.v].args)

\* a dict without entries
EmptyDict == [key \in {} |-> NoneV]

\* lines 165 to 194: the dict process returns; the valueRaw entry, which the
\* base class fills, is left out
result_dict(x) ==
    [x EXCEPT !.result =
        [extrinsic_length |-> x.extrinsic_length, version_info |-> x.version_info,
         call_code |-> x.call_index,
         call_module_function |-> x.call,
         call_module |-> x.call_module,
         params |-> x.params]
        @@ (IF x.contains_transaction
            THEN [account_length |-> x.address.account_length,
                  account_id |-> x.address.account_id,
                  account_index |-> x.address.account_index,
                  account_idx |-> x.address.account_idx,
                  signature |-> x.signature,
                  extrinsic_hash |-> x.extrinsic_hash]
            ELSE EmptyDict)
        @@ (IF x.nonce # NoneV THEN [nonce |-> x.nonce] ELSE EmptyDict)
        @@ (IF x.era # NoneV THEN [era |-> x.era] ELSE EmptyDict)
        @@ (IF x.tip # NoneV THEN [tip |-> x.tip] ELSE EmptyDict)]

\* ExtrinsicsDecoder.process on the object x
ExtrinsicsDecoder_process(x) ==
    Run(extrinsic_length_step(x, process_type("Compact<u32>", x.c)), LAMBDA l :
    Run(version_step(l, get_next_bytes(l.c, 1)), LAMBDA v :
    Run(version_branch(v), LAMBDA b :
    Run(call_step(b), LAMBDA p : result_dict(p)))))

-----------------------------------------------------------------------------
(* SpecExtrinsic: an ExtrinsicsDecoder is made on a buffer and decodes it *)

\* the signed part of an extrinsic of version 1: address, signature, nonce, era
SignedV1 ==
    {address \o Pattern(9, 64) \o <<4>> \o era :
        address \in {<<255>> \o Pattern(3, 32), <<7>>},
        era \in {<<0>>, <<5, 0>>}}

\* that of versions 2 and 3: address, signature, era, nonce, tip; the nonce
\* and the tip in one byte, or in the full width of their types, or an era
\* and a nonce of two bytes each
SignedV2 ==
    {address \o Pattern(9, 64) \o tail :
        address \in {<<255>> \o Pattern(3, 32), <<7>>},
        tail \in {<<0, 4, 0>>,
                  <<0, 19>> \o Pattern(1, 8) \o <<51>> \o Pattern(2, 16),
                  <<5, 0, 9, 0, 0>>}}

\* a call index and the bytes of the parameters: known calls, a call the
\* metadata does not have, a call index cut short
CallBodies ==
    {<<0, 0, 4>>, <<1, 0, 7, 8>>, <<1, 0, 252, 1, 0, 8, 1>>, <<2, 0>>,
     <<9, 9>>, <<0>>}

\* version bytes around the accepted ones and around the signed bit
NamedVersions == {1, 129, 2, 130, 3, 131, 9, 0, 4, 79, 80, 127, 128, 132, 255}

\* a signed extrinsic of versions 2 and 3 that also decodes with the nonce
\* read before the era, to other values: an era of two bytes whose first
\* starts a nonce, a nonce and a tip in full width, timestamp.set(1)
TwoReadings ==
    <<7>> \o Pattern(9, 64) \o <<19, 7, 19>> \o Pattern(1, 6) \o <<0, 51, 51>>
          \o Pattern(2, 15) \o <<2, 0, 0, 4>>

\* what follows the version byte
Payloads ==
    {signed \o call : signed \in {<< >>} \cup SignedV1 \cup SignedV2,
                      call \in CallBodies}
    \cup {TwoReadings}

FewPayloads ==
    {<<0, 0, 4>>, <<7>> \o Pattern(9, 64) \o <<4, 0, 0, 0, 4>>}

Extrinsics ==
    {<<v>> \o p : v \in NamedVersions, p \in Payloads}
    \cup {<<v>> \o p : v \in Byte, p \in FewPayloads}

\* the extrinsic with its length before it
WithLength(extrinsic) ==
    encode(ScaleBytes(<< >>), Big(Len(extrinsic))).data.data \o extrinsic

ExtrinsicObjects ==
    {Object("Extrinsic", e) : e \in Extrinsics}
    \cup {Object("Extrinsic", WithLength(e)) : e \in Extrinsics}
    \cup {Object("Extrinsic", bs) : bs \in {<< >>, <<4>>, <<8, 9>>}}

InitExtrinsic ==
    /\ op = "new"
    /\ enc = NewEncoder
    /\ obj \in ExtrinsicObjects
    /\ dec = NoObject
    /\ cls = ClassAttributes

ExtrinsicProcess ==
    Process("Extrinsic", ExtrinsicsDecoder_process(ExtrinsicsDecoder_init(obj.data)))

NextExtrinsic == ExtrinsicProcess

SpecExtrinsic == InitExtrinsic /\ [][NextExtrinsic]_vars

-----------------------------------------------------------------------------
(* EventRecord and EventsDecoder: block.py *)

\* the event-index table of the metadata: the event's module, the event's
\* name and the type strings of its arguments by the hex of the 2-byte index
event_index_table ==
    (hex(<<0, 0>>) :>
        [module |-> "system", name |-> "ExtrinsicSuccess", args |-> << >>])
    @@ (hex(<<1, 0>>) :>
        [module |-> "balances", name |-> "Transfer",
         args |-> <<"U16", "Compact<u32>">>])
    @@ (hex(<<2, 0>>) :>
        [module |-> "indices", name |-> "NewAccountIndex", args |-> <<"u8">>])

\* metadata.version of a metadata whose version has the given index
MetadataVersion(index) == [t |-> "MetadataVersion", index |-> index]

\* EventRecord.__init__: the attributes of the object made on the cursor c
EventRecord_init(c) ==
    [err |-> "none", c |-> c, phase |-> NoneV, extrinsic_idx |-> NoneV,
     type |-> NoneV, params |-> << >>, event |-> NoneV,
     event_module |-> NoneV, topics |-> ListV(<< >>), value |-> NoneV]

\* self.phase = self.get_next_u8()
phase_step(x, r) ==
    IF r.err # "none" THEN Raised(x, r)
    ELSE [x EXCEPT !.c = r.c, !.phase = IntV(from_bytes(r.bytes))]

\* extrinsic_idx_step that takes every phase to carry an extrinsic index
extrinsic_idx_step_every_phase(x) ==
    set_attribute(x, "extrinsic_idx", process_type("U32", x.c))

\* if self.phase == 0: self.extrinsic_idx = self.process_type('U32').value
extrinsic_idx_step(x) ==
    IF x.phase = IntV(<< >>)
    THEN set_attribute(x, "extrinsic_idx", process_type("U32", x.c))
    ELSE x

\* self.type = self.get_next_bytes(2).hex()
type_step(x, r) ==
    IF r.err # "none" THEN Raised(x, r)
    ELSE [x EXCEPT !.c = r.c, !.type = StrV(hex(r.bytes))]

\* self.params.append(...) for the argument type decoded with outcome r
append_event_param(x, arg_type, r) ==
    IF r.err # "none" THEN Raised(x, r)
    ELSE [x EXCEPT !.c = r.c,
                   !.params = Append(@, [type |-> arg_type, value |-> r.value,
                                         valueRaw |-> StrV(hex(SubSeq(x.c.data,
                                                                    x.c.offset + 1,
                                                                    r.c.offset)))])]

RECURSIVE event_args(_, _)
\* for arg_type in self.event.args
event_args(x, args) ==
    IF args = << >> THEN x
    ELSE Run(append_event_param(x, args[1], process_type(args[1], x.c)),
             LAMBDA y : event_args(y, Tail(args)))

\* lines 260 to 272: the event of the metadata and its parameters
event_step(x) ==
    IF x.type.v \notin DOMAIN event_index_table
    THEN [x EXCEPT !.err = "KeyError"]
    ELSE event_args([x EXCEPT !.event = NameV(event_index_table[x.type.v].name),
                              !.event_module =
                                  NameV(event_index_table[x.type.v].module)],
                    event_index_table[x.type.v].args)

\* topics_step that decodes topics for every metadata that has a version
topics_step_any_version(x, version) ==
    IF version # NoneV
    THEN set_attribute(x, "topics", process_type("Vec<Hash>", x.c))
    ELSE x

\* lines 275 and 276: topics, of a metadata of version 5 or later
topics_step(x, version) ==
    IF version # NoneV /\ version.index >= 5
    THEN set_attribute(x, "topics", process_type("Vec<Hash>", x.c))
    ELSE x

\* lines 278 to 286: the dict process returns
event_dict(x) ==
    [x EXCEPT !.value =
        [phase |-> x.phase, extrinsic_idx |-> x.extrinsic_idx, type |-> x.type,
         module_id |-> x.event_module, event_id |-> x.event,
         params |-> x.params, topics |-> x.topics]]

\* EventRecord.process of an object made on the cursor c with a metadata of
\* the given version
EventRecord_process(c, version) ==
    Run(phase_step(EventRecord_init(c), get_next_bytes(c, 1)), LAMBDA p :
    Run(extrinsic_idx_step(p), LAMBDA i :
    Run(type_step(i, get_next_bytes(i.c, 2)), LAMBDA t :
    Run(event_step(t), LAMBDA e :
    Run(topics_step(e, version), LAMBDA o : event_dict(o))))))

\* append_element that counts the events from 1
append_element_from_1(element, i, more) ==
    IF more.err # "none" THEN more
    ELSE Ok(more.c, <<[event_idx |-> IntV(Big(i + 1))] @@ element.value>> \o more.value)

\* element.value['event_idx'] = i; self.elements.append(element)
append_element(element, i, more) ==
    IF more.err # "none" THEN more
    ELSE Ok(more.c, <<[event_idx |-> IntV(Big(i))] @@ element.value>> \o more.value)

RECURSIVE events_from(_, _, _, _)
\* for i in range(0, element_count), from i on
events_from(c, version, i, element_count) ==
    IF i >= element_count THEN Ok(c, << >>)
    ELSE Then(EventRecord_process(c, version), LAMBDA element :
             append_element(element, i,
                            events_from(element.c, version, i + 1, element_count)))

\* EventsDecoder.process
EventsDecoder_process(c, version) ==
    Then(process_type("Compact<u32>", c), LAMBDA element_count :
        Then(events_from(element_count.c, version, 0,
                         IF Len(element_count.value.v) > 2 THEN 65536
                         ELSE Small(element_count.value.v)),
             LAMBDA r : Ok(r.c, ListV(r.value))))

-----------------------------------------------------------------------------
(* SpecEvents: an EventRecord or an EventsDecoder is made on a buffer and  *)
(* decodes it                                                              *)

\* the most events of a vector of events
MaxEvents == 3

\* an event of two arguments with the bytes of the first only
CutShort == <<1, 0, 7>>

\* the event-type index and the bytes of the arguments: known events, an
\* event the metadata does not have, arguments cut short
EventBodies == {<<0, 0>>, <<1, 0, 7, 0, 8>>, <<2, 0, 42>>, <<9, 9>>, CutShort}

\* an event on the wire up to its last argument: the wire bytes, what they
\* were put together from, and whether the bytes of all arguments are there
EventOnWire(phase, index, body) ==
    [phase |-> phase, index |-> index, type |-> SubSeq(body, 1, 2),
     whole |-> body # CutShort, wire |-> <<phase>> \o index \o body]

EventsOnWire ==
    {EventOnWire(0, index, body) :
        index \in {<<5, 0, 0, 0>>, <<0, 1, 0, 0>>}, body \in EventBodies}
    \cup {EventOnWire(phase, << >>, body) : phase \in {1, 2, 255}, body \in EventBodies}
    \cup {EventOnWire(phase, << >>, <<2, 0, 42>>) : phase \in Byte \ {0}}

\* what follows the last argument: nothing, an empty vector, a vector of one
\* hash, a vector of two hashes cut short, other bytes
EventTails ==
    {<< >>, <<0>>, <<4>> \o Pattern(5, 32), <<8>> \o Pattern(5, 32), <<0, 9>>}

\* metadata.version: absent, or of index 4, 5, 6
MetadataVersions == {NoneV, MetadataVersion(4), MetadataVersion(5), MetadataVersion(6)}

EventRecordObjects ==
    {[version |-> version, events |-> <<event>>]
        @@ Object("EventRecord", event.wire \o tail) :
        event \in EventsOnWire, tail \in EventTails, version \in MetadataVersions}
    \cup {[version |-> NoneV, events |-> << >>] @@ Object("EventRecord", bs) :
             bs \in {<< >>, <<0, 5, 0>>, <<1, 0>>}}

\* whole events a vector is put together from
WholeEvents ==
    {EventOnWire(0, <<5, 0, 0, 0>>, <<0, 0>>), EventOnWire(1, << >>, <<2, 0, 42>>),
     EventOnWire(0, <<0, 1, 0, 0>>, <<1, 0, 7, 0, 8>>),
     EventOnWire(2, << >>, <<9, 9>>)}

\* the events with the empty vector of topics a metadata of version 5 or
\* later has after each
RECURSIVE WireOf(_, _)
WireOf(events, version) ==
    IF events = << >> THEN << >>
    ELSE events[1].wire
         \o (IF version # NoneV /\ version.index >= 5 THEN <<0>> ELSE << >>)
         \o WireOf(Tail(events), version)

\* vectors of events: a count that is the number of events on the wire, one
\* less, one more
EventsObjects ==
    {[version |-> version, events |-> events]
        @@ Object("Events", <<4 * count>> \o WireOf(events, version)) :
        events \in UNION {SeqsOfLen(WholeEvents, n) : n \in 0..MaxEvents},
        count \in 0..(MaxEvents + 1),
        version \in {NoneV, MetadataVersion(5)}}

InitEvents ==
    /\ op = "new"
    /\ enc = NewEncoder
    /\ obj \in EventRecordObjects \cup EventsObjects
    /\ dec = NoObject
    /\ cls = ClassAttributes

EventRecordProcess ==
    Process("EventRecord", EventRecord_process(ScaleBytes(obj.data), obj.version))

EventsProcess ==
    Process("Events", EventsDecoder_process(ScaleBytes(obj.data), obj.version))

NextEvents ==
    \/ EventRecordProcess
    \/ EventsProcess

SpecEvents == InitEvents /\ [][NextEvents]_vars

-----------------------------------------------------------------------------
(* LogDigest: block.py, class LogDigest and the classes of its variants *)

\* str.__getitem__(slice(from, to)) of a str s, positions counted from 0
str_slice(s, from, to) ==
    SubSeq(s, from + 1, IF to < Len(s) THEN to ELSE Len(s))

\* ScaleBytes.__str__(): '0x' and the hex of the bytes not yet read
ScaleBytes_str(c) ==
    <<48, 120>> \o hex(SubSeq(c.data, c.offset + 1, Len(c.data)))

\* bytes.fromhex of a str of an even number of hexadecimal digits
fromhex(s) ==
    [i \in 1..(Len(s) \div 2) |->
        HexDigit(s[2 * i - 1]) * 16 + HexDigit(s[2 * i])]

\* ScaleBytes('0x...'): a cursor at offset 0 on the bytes the digits spell
ScaleBytes_of_hex(s) == ScaleBytes(fromhex(str_slice(s, 2, Len(s))))

\* the type_mapping the Struct classes of block.py declare, and the fields,
\* named by position, of the tuple the finality track holds
log_type_mapping(class) ==
    CASE class = "ShardInfoLog" -> <<<<"num", "U16">>, <<"count", "U16">>>>
      [] class = "Other" -> <<<<"sharding", "ShardInfoLog">>>>
      [] class = "SealV0" -> <<<<"slot", "u64">>, <<"signature", "Signature">>>>
      [] class = "Consensus" ->
            <<<<"engine", "ConsensusEngineId">>, <<"data", "Vec<u8>">>>>
      [] class \in {"Seal", "PreRuntime"} ->
            <<<<"engine", "ConsensusEngineId">>, <<"data", "Bytes">>>>
      [] class = "(SessionKey, u64)" -> <<<<"0", "SessionKey">>, <<"1", "u64">>>>
      [] OTHER -> << >>

RECURSIVE process_log_type(_, _)
RECURSIVE log_fields(_, _)
RECURSIVE log_elements(_, _, _)

\* the loop of Struct.process over the type_mapping of a class of block.py
log_fields(c, type_mapping) ==
    IF type_mapping = << >> THEN Ok(c, << >>)
    ELSE Then(process_log_type(type_mapping[1][2], c), LAMBDA field :
             prepend(<<type_mapping[1][1], field.value>>,
                     log_fields(field.c, Tail(type_mapping))))

\* the loop of Vec.process over elements that are of a class of block.py
log_elements(c, sub_type, count) ==
    IF count = 0 THEN Ok(c, << >>)
    ELSE Then(process_log_type(sub_type, c), LAMBDA element :
             prepend(element.value, log_elements(element.c, sub_type, count - 1)))

\* process_type for the type strings LogDigest decodes: the classes block.py
\* declares for the variants, and the types of the three patterns
process_log_type(type_string, c) ==
    CASE log_type_mapping(type_string) # << >> ->
            Then(log_fields(c, log_type_mapping(type_string)),
                 LAMBDA r : Ok(r.c, [t |-> "dict", v |-> r.value]))
      [] type_string = "Vec<(SessionKey, u64)>" ->
            Then(process_sub_type("Compact<u32>", c), LAMBDA element_count :
                Then(log_elements(element_count.c, "(SessionKey, u64)",
                                  IF Len(element_count.value.v) > 2 THEN 65536
                                  ELSE Small(element_count.value.v)),
                     LAMBDA r : Ok(r.c, ListV(r.value))))
      [] type_string = "AuthoritiesChange" -> Vec_process(c, "AccountId")
      [] type_string = "ChangesTrieRoot" -> Bytes_process(c)
      [] OTHER -> process_type(type_string, c)

\* return {'type': ..., 'value': self.log_type.value} of the object that
\* process_type(type_string) made on the cursor c
log_digest_value(type_string, c) ==
    process_log_type(type_string, c) @@ [log_type |-> type_string]

\* LogDigest.process without the three patterns
log_digest_by_index(index, c, value_list) ==
    log_digest_value(value_list[index + 1], c)

\* LogDigest.process once self.index and self.index_value are set: the
\* three patterns, then the variant the index names
log_digest_patterns(index, c, value_list) ==
    IF str_slice(ScaleBytes_str(c), 0, 10) = <<48, 120>> \o hex(<<0, 24, 2, 0>>)
    THEN log_digest_value("ShardInfoLog",
             ScaleBytes_of_hex(<<48, 120>> \o str_slice(ScaleBytes_str(c), 10, 18)))
    ELSE IF str_slice(ScaleBytes_str(c), 0, 10) = <<48, 120>> \o hex(<<0, 40, 4, 0>>)
    THEN log_digest_value("U64",
             ScaleBytes_of_hex(<<48, 120>> \o str_slice(ScaleBytes_str(c), 10, 26)))
    ELSE IF str_slice(ScaleBytes_str(c), 0, 12)
                = <<48, 120>> \o hex(<<0, 237, 3, 3, 0>>)
    THEN log_digest_value("Vec<(SessionKey, u64)>",
             ScaleBytes_of_hex(<<48, 120>>
                 \o str_slice(ScaleBytes_str(c), 28, Len(ScaleBytes_str(c)))))
    ELSE log_digest_value(value_list[index + 1], c)

\* self.index_value = self.value_list[self.index], and what follows it
log_digest_index(index, c, value_list) ==
    IF ~index.ok THEN Fail("ValueError(invalid literal)", c)
    ELSE IF index.n >= Len(value_list) THEN Fail("IndexError", c)
    ELSE log_digest_patterns(index.n, c, value_list)

\* LogDigest.process
LogDigest_process(c, value_list) ==
    Then(get_next_bytes(c, 1), LAMBDA b :
        log_digest_index(int_of_str(hex(b.bytes)), b.c, value_list))
    @@ [log_type |-> ""]

-----------------------------------------------------------------------------
(* SpecDigest: LogDigest objects on digest logs *)

\* the bytes the three patterns spell
ShardPattern == <<0, 24, 2, 0>>
U64Pattern == <<0, 40, 4, 0>>
FinalityPattern == <<0, 237, 3, 3, 0>>

\* what follows the index byte: each pattern with a window that is whole,
\* longer or cut short; bytes that miss a pattern by one; the bytes of each
\* variant
LogBodies ==
    {ShardPattern \o w : w \in {<<1, 0, 2, 0>>, <<1, 0, 2, 0, 9>>, <<1, 0>>, << >>}}
    \cup {U64Pattern \o w :
            w \in {Pattern(1, 8), Pattern(1, 8) \o <<9>>, Pattern(1, 3)}}
    \cup {FinalityPattern \o Pattern(2, 8) \o v :
            v \in {<<0>>, <<4>> \o Pattern(3, 32) \o Pattern(4, 8),
                   <<4>> \o Pattern(3, 32), << >>}}
    \cup {FinalityPattern, FinalityPattern \o Pattern(2, 3),
          <<0, 24, 2, 1, 1, 0, 2, 0>>, <<0, 237, 3, 3, 1, 0, 0>>,
          <<24, 2, 0, 5>>, <<1, 0, 2, 0>>, << >>, <<1>>,
          <<0>>, <<4>> \o Pattern(3, 32), <<8, 65, 66>>,
          <<65, 66, 67, 68, 8, 65, 66>>, <<255, 66, 67, 68, 4, 255>>,
          Pattern(5, 8) \o Pattern(6, 64)}

\* index bytes: the seven variants, and bytes that name none
LogIndexBytes == 0..16 \cup {255}

DigestObjects ==
    {[Object("LogDigest", <<b>> \o body) EXCEPT !.value_list = LogDigestList] :
        b \in LogIndexBytes, body \in LogBodies}
    \cup {[Object("LogDigest", << >>) EXCEPT !.value_list = LogDigestList]}

InitDigest ==
    /\ op = "new"
    /\ enc = NewEncoder
    /\ obj \in DigestObjects
    /\ dec = NoObject
    /\ cls = ClassAttributes

DigestProcess ==
    Process("LogDigest", LogDigest_process(ScaleBytes(obj.data), obj.value_list))

NextDigest == DigestProcess

SpecDigest == InitDigest /\ [][NextDigest]_vars

-----------------------------------------------------------------------------
(* SpecOverride: Struct and Enum objects made one after another, with and  *)
(* without a table of their own, each decoded before the next is made      *)

\* the tables handed to the constructors: None, a table without entries,
\* tables that are not those of the classes
NoArgument == [t |-> "none", v |-> << >>]
TypeMappings ==
    {NoArgument, ListV(<< >>), ListV(<<<<"a", "u8">>>>),
     ListV(<<<<"x", "U16">>, <<"y", "u8">>>>)}
VariantLists == {NoArgument, ListV(<< >>), ListV(<<"A", "B">>)}

\* the bytes the objects are made on
OverrideData == {<<1, 0, 2, 0>>, <<0, 7>>, <<2>>, << >>}

\* the object of the class made on data with the arguments args, after the
\* constructor gave made; earlier tells whether an object of the class made
\* before this one was given a table
Constructed(kind, class, data, args, made) ==
    /\ op' = "new"
    /\ obj' = [kind |-> kind, class |-> class, data |-> data, args |-> args,
               self |-> made.self,
               earlier |-> obj.earlier
                           \cup (IF given(obj.args.type_mapping)
                                    \/ given(obj.args.value_list)
                                 THEN {obj.class} ELSE {})]
    /\ cls' = made.cls
    /\ dec' = NoObject
    /\ UNCHANGED enc

\* ShardInfo(data, type_mapping=...)
NewStruct ==
    /\ op = "process"
    /\ \E data \in OverrideData, type_mapping \in TypeMappings :
          Constructed("Struct", "ShardInfo", data,
                      [type_mapping |-> type_mapping, value_list |-> NoArgument],
                      Struct_init(cls, "ShardInfo", type_mapping))

\* Enum(data, value_list=..., type_mapping=...) and the same of the class
\* RewardDestination
NewEnum ==
    /\ op = "process"
    /\ \E data \in OverrideData, class \in {"Enum", "RewardDestination"},
          value_list \in VariantLists, type_mapping \in TypeMappings :
          Constructed("Enum", class, data,
                      [type_mapping |-> type_mapping, value_list |-> value_list],
                      Enum_init(cls, class, value_list, type_mapping))

\* Struct.process of the object made last
StructDecode ==
    Process("Struct",
            Struct_process(ScaleBytes(obj.data),
                           attribute_of(cls, obj.class, obj.self, "type_mapping")))

\* Enum.process of the object made last
EnumDecode ==
    Process("Enum",
            Enum_process(ScaleBytes(obj.data),
                         attribute_of(cls, obj.class, obj.self, "value_list"),
                         attribute_of(cls, obj.class, obj.self, "type_mapping")))

\* a first object, made without arguments
InitOverride ==
    /\ op = "new"
    /\ enc = NewEncoder
    /\ obj = [kind |-> "Struct", class |-> "ShardInfo", data |-> <<1, 0, 2, 0>>,
              args |-> [type_mapping |-> NoArgument, value_list |-> NoArgument],
              self |-> NoAttributes, earlier |-> {}]
    /\ dec = NoObject
    /\ cls = ClassAttributes

NextOverride == NewStruct \/ NewEnum \/ StructDecode \/ EnumDecode

SpecOverride == InitOverride /\ [][NextOverride]_vars

-----------------------------------------------------------------------------
(* Claims about the compact encoder *)

\* C1: every value below 2^(8*67) is encoded without error, and decoding the
\* bytes the encoder wrote returns the value and consumes all of them.
C1_RoundTrip ==
    /\ (op = "encode" /\ BigLess(enc.value, Pow256(67))) => enc.err = "none"
    /\ op = "decode" =>
          /\ dec.err = "none"
          /\ dec.value = IntV(enc.value)
          /\ dec.c.offset = Len(enc.data.data)

\* the bytes of an encoded value read back as a little-endian integer
EncodedInt == from_bytes(enc.data.data)

\* C2: the output of encode is, by range of the value v: one byte v<<2; two
\* little-endian bytes (v<<2)|1; four little-endian bytes (v<<2)|2; and for a
\* larger v with 2^(8*(L-1)) <= v < 2^(8*L), L in 5..67, the mode byte
\* ((L-4)<<2)|3 followed by v in L little-endian bytes.
C2_EncodeBitExact ==
    op = "encode" =>
        LET v == enc.value
            out == enc.data.data
        IN
        /\ BigLeq(v, Big(63)) =>
              /\ enc.err = "none" /\ Len(out) = 1
              /\ out[1] % 4 = 0 /\ Div4(EncodedInt) = v
        /\ (BigLess(Big(63), v) /\ BigLeq(v, Big(16383))) =>
              /\ enc.err = "none" /\ Len(out) = 2
              /\ out[1] % 4 = 1 /\ Div4(EncodedInt) = v
        /\ (BigLess(Big(16383), v) /\ BigLeq(v, Big(1073741823))) =>
              /\ enc.err = "none" /\ Len(out) = 4
              /\ out[1] % 4 = 2 /\ Div4(EncodedInt) = v
        /\ \A L \in 5..67 :
              (BigLeq(Pow256(L - 1), v) /\ BigLess(v, Pow256(L))) =>
                  /\ enc.err = "none" /\ Len(out) = L + 1
                  /\ out[1] = (L - 4) * 4 + 3 /\ out[1] % 4 = 3
                  /\ from_bytes(Tail(out)) = v

\* 2^300 was encoded: a mode byte and 38 bytes
C2_Witness ==
    /\ op = "encode"
    /\ enc.value = [i \in 1..38 |-> IF i = 38 THEN 16 ELSE 0]
    /\ enc.err = "none"
    /\ Len(enc.data.data) = 39

\* C3: encode of a value of 2^(8*67) or more fails with ValueError and leaves
\* the data of the object as it was before the call.
C3_EncodeOutOfRange ==
    [][(op' = "encode" /\ BigLeq(Pow256(67), enc'.value)) =>
          (enc'.err = "ValueError(out of range)" /\ enc'.data = enc.data)]_vars

\* an encode of such a value failed on an object that held an earlier output
C3_Witness ==
    /\ op = "encode"
    /\ BigLeq(Pow256(67), enc.value)
    /\ enc.err = "ValueError(out of range)"
    /\ Len(enc.data.data) > 1

-----------------------------------------------------------------------------
(* Claims about the decoders, under SpecDecode *)

\* the object of class kind was constructed on at least n bytes and its
\* process() has run
Processed(kind, n) == op = "process" /\ obj.kind = kind /\ Len(obj.data) >= n

\* C4: Compact decode takes its total length from the first byte b by
\* b mod 4: 1 byte and b >> 2; 2 bytes and u16-le >> 2; 4 bytes and
\* u32-le >> 2; 5 + (b - 3) div 4 bytes, the first included, and the
\* little-endian integer of the bytes after the first, not shifted.  For
\* every first byte the cursor advances by exactly that total length.
C4_CompactDecode ==
    Processed("CompactU32", 1) =>
        LET data == obj.data
            b == data[1]
            total == CASE b % 4 = 0 -> 1
                       [] b % 4 = 1 -> 2
                       [] b % 4 = 2 -> 4
                       [] OTHER -> 5 + (b - 3) \div 4
        IN  Len(data) >= total =>
                /\ dec.err = "none"
                /\ dec.c.offset = total
                /\ dec.compact_length = total
                /\ b % 4 = 0 => dec.value = IntV(Big(b \div 4))
                /\ b % 4 = 1 => dec.value = IntV(Big((b \div 4) + 64 * data[2]))
                /\ b % 4 = 2 =>
                      dec.value = IntV(Big((b \div 4) + 64 * data[2]
                                           + 16384 * data[3] + 4194304 * data[4]))
                /\ b % 4 = 3 => dec.value = IntV(from_bytes(SubSeq(data, 2, total)))

C4_Witness ==
    /\ Processed("CompactU32", 69)
    /\ obj.data[1] = 255
    /\ obj.data[68] # 0
    /\ dec.err = "none"
    /\ dec.c.offset = 68
    /\ Len(dec.value.v) = 67

\* the ValueError exceptions Enum.process raises; the index error is
\* ValueError("Index not present")
ValueErrors == {"ValueError(Index not present)", "ValueError(invalid literal)"}

\* C5: Enum value-list decode reads exactly 1 selector byte, takes the
\* numeric value of that byte as the variant index, returns the label at that
\* position of the list and consumes no further bytes; where the byte's value
\* is at least the length of the list the decode fails with the index error.
C5_EnumValueList ==
    (Processed("Enum", 1) /\ obj.type_mapping = << >>) =>
        IF obj.data[1] < Len(obj.value_list)
        THEN /\ dec.err = "none"
             /\ dec.index = obj.data[1]
             /\ dec.value = NameV(obj.value_list[obj.data[1] + 1])
             /\ dec.c.offset = 1
        ELSE dec.err \in ValueErrors

\* C6: Option decode reads exactly 1 presence byte: 0x00 gives null and
\* consumes nothing more; any other byte has the declared sub-type decoded
\* next from the same cursor, whose value is the Option's value.
C6_OptionDecode ==
    /\ Processed("Option", 1) =>
          LET data == obj.data
              width == IF obj.sub_type = "u8" THEN 1 ELSE 2
          IN  /\ data[1] = 0 =>
                    dec.err = "none" /\ dec.value = NoneV /\ dec.c.offset = 1
              /\ (data[1] # 0 /\ Len(data) >= 1 + width) =>
                    /\ dec.err = "none"
                    /\ dec.c.offset = 1 + width
                    /\ dec.value =
                          IntV(Big(data[2]
                                   + (IF width = 2 THEN 256 * data[3] ELSE 0)))
              /\ (data[1] # 0 /\ Len(data) < 1 + width) => dec.err # "none"
    /\ Processed("OptionBytes", 1) =>
          /\ obj.data[1] = 0 =>
                dec.err = "none" /\ dec.value = NoneV /\ dec.c.offset = 1
          /\ obj.data[1] # 0 =>
                dec = Bytes_process([data |-> obj.data, offset |-> 1])
          /\ (obj.data[1] # 0 /\ Tail(obj.data) = <<8, 65, 66>>) =>
                dec.value = StrV(<<65, 66>>) /\ dec.c.offset = 4

\* a presence byte that is neither 0x00 nor 0x01, and the u8 0x2A after it
C6_Witness ==
    /\ Processed("Option", 2)
    /\ obj.sub_type = "u8"
    /\ obj.data[1] = 128
    /\ obj.data[2] = 42
    /\ dec.value = IntV(<<42>>)
    /\ dec.c.offset = 2

C8_AddressBranch ==
    Processed("Address", 1) =>
        LET data == obj.data
            marker == data[1]
            more == CASE marker = 255 -> 32
                      [] marker = 252 -> 2
                      [] marker = 253 -> 4
                      [] marker = 254 -> 8
                      [] OTHER -> 0
        IN  Len(data) >= 1 + more =>
                /\ dec.err = "none"
                /\ dec.c.offset = 1 + more
                /\ dec.account_length = StrV(hex(<<marker>>))
                /\ marker = 255 =>
                      /\ dec.account_id = StrV(hex(SubSeq(data, 2, 33)))
                      /\ dec.value = dec.account_id
                      /\ dec.account_index = NoneV
                      /\ dec.account_idx = NoneV
                /\ marker \in {252, 253, 254} =>
                      /\ dec.account_index = StrV(hex(SubSeq(data, 2, 1 + more)))
                      /\ dec.account_idx = IntV(from_bytes(SubSeq(data, 2, 1 + more)))
                      /\ dec.value = dec.account_index
                      /\ dec.account_id = NoneV
                /\ marker < 252 =>
                      /\ dec.account_index = StrV(hex(<<marker>>))
                      /\ dec.account_idx = IntV(Big(marker))
                      /\ dec.value = dec.account_index
                      /\ dec.account_id = NoneV
                /\ data = <<252, 1, 0>> =>
                      /\ dec.account_index = StrV(<<48, 49, 48, 48>>)
                      /\ dec.account_idx = IntV(<<1>>)
                /\ marker = 171 => dec.account_length = StrV(<<97, 98>>)

\* marker 0xFD and four bytes, the first of them 1
C8_Witness ==
    /\ Processed("Address", 5)
    /\ obj.data[1] = 253
    /\ obj.data[2] = 1
    /\ dec.err = "none"
    /\ dec.account_idx = IntV(<<1>>)
    /\ dec.c.offset = 5

-----------------------------------------------------------------------------
(* Claims about ExtrinsicsDecoder, under SpecExtrinsic *)

\* process() of the ExtrinsicsDecoder has run and has read a version byte
VersionRead == Processed("Extrinsic", 1) /\ dec.version_info # NoneV

\* the place in the buffer of the byte read as the version byte: the first
\* byte, or, behind a length, the first of the bytes the length counts
VersionAt ==
    IF dec.extrinsic_length = NoneV THEN 1
    ELSE Len(obj.data) - Small(dec.extrinsic_length.v) + 1

VersionByte == obj.data[VersionAt]

AcceptedVersions == {1, 129, 2, 130, 3, 131}

\* the entries of the record that only a signed extrinsic has
SignedEntries ==
    {"account_length", "account_id", "account_index", "account_idx",
     "signature", "extrinsic_hash"}

\* C9: ExtrinsicsDecoder accepts a version byte only if it is one of 0x01,
\* 0x81, 0x02, 0x82, 0x03, 0x83; for every other version byte the decode
\* fails with the error for an unsupported version before an address, a
\* signature, a call index or an argument is read, and returns no record.
C9_VersionCheck ==
    VersionRead =>
        /\ dec.version_info = StrV(hex(<<VersionByte>>))
        /\ VersionByte \notin AcceptedVersions =>
              /\ dec.err = "NotImplementedError"
              /\ dec.c.offset = VersionAt
              /\ dec.address = NoneV
              /\ dec.signature = NoneV
              /\ dec.nonce = NoneV
              /\ dec.era = NoneV
              /\ dec.tip = NoneV
              /\ dec.call_index = NoneV
              /\ dec.params = << >>
              /\ dec.result = NoneV
        /\ VersionByte \in AcceptedVersions => dec.err # "NotImplementedError"
        /\ dec.result # NoneV => VersionByte \in AcceptedVersions

\* version byte 0x09 behind a length
C9_Witness ==
    /\ VersionRead
    /\ VersionAt > 1
    /\ VersionByte = 9
    /\ dec.err = "NotImplementedError"

\* C10: for every accepted version byte the extrinsic is signed exactly when
\* bit 0x80 of the version byte is set.  A signed decode that succeeds has
\* address, signature, nonce and era populated and a non-null extrinsic_hash
\* in the record; an unsigned decode reads none of them (the 2 bytes after
\* the version byte are the call index), leaves extrinsic_hash null, and its
\* record has no account, signature or hash entry.
C10_SignedBit ==
    (VersionRead /\ VersionByte \in AcceptedVersions) =>
        /\ dec.contains_transaction = ((VersionByte \div 128) % 2 = 1)
        /\ (dec.contains_transaction /\ dec.err = "none") =>
              /\ dec.address # NoneV
              /\ dec.address.account_length = StrV(hex(<<obj.data[VersionAt + 1]>>))
              /\ dec.signature # NoneV
              /\ dec.nonce # NoneV
              /\ dec.era # NoneV
              /\ dec.extrinsic_hash # NoneV
              /\ SignedEntries \subseteq DOMAIN dec.result
              /\ dec.result.extrinsic_hash = dec.extrinsic_hash
              /\ dec.result.signature = dec.signature
              /\ dec.result.nonce = dec.nonce
              /\ dec.result.era = dec.era
        /\ ~dec.contains_transaction =>
              /\ dec.address = NoneV
              /\ dec.signature = NoneV
              /\ dec.nonce = NoneV
              /\ dec.era = NoneV
              /\ dec.tip = NoneV
              /\ dec.extrinsic_hash = NoneV
              /\ Len(obj.data) >= VersionAt + 2 =>
                    dec.call_index =
                        StrV(hex(SubSeq(obj.data, VersionAt + 1, VersionAt + 2)))
              /\ dec.err = "none" =>
                    DOMAIN dec.result \cap (SignedEntries \cup {"nonce", "era", "tip"}) = {}

\* a signed extrinsic of version 2 that decoded
C10_Witness ==
    /\ VersionRead
    /\ VersionByte = 130
    /\ dec.err = "none"
    /\ dec.tip # NoneV
    /\ dec.result.extrinsic_hash # NoneV
    /\ dec.result.call_code = StrV(<<48, 49, 48, 48>>)

\* the number of bytes of the compact integer the buffer starts with
LeadingTotal ==
    CASE obj.data[1] % 4 = 0 -> 1
      [] obj.data[1] % 4 = 1 -> 2
      [] obj.data[1] % 4 = 2 -> 4
      [] OTHER -> 5 + (obj.data[1] - 3) \div 4

\* the value of that compact integer, when the buffer holds all its bytes
LeadingValue ==
    CASE obj.data[1] % 4 = 0 -> Big(obj.data[1] \div 4)
      [] obj.data[1] % 4 = 1 -> Big((obj.data[1] \div 4) + 64 * obj.data[2])
      [] obj.data[1] % 4 = 2 ->
            Big((obj.data[1] \div 4) + 64 * obj.data[2] + 16384 * obj.data[3]
                + 4194304 * obj.data[4])
      [] OTHER -> from_bytes(SubSeq(obj.data, 2, LeadingTotal))

\* the buffer starts with the number of the bytes that follow
LengthPresent ==
    /\ Len(obj.data) >= LeadingTotal
    /\ LeadingValue = Big(Len(obj.data) - LeadingTotal)

\* C11: ExtrinsicsDecoder first decodes a leading compact integer; where its
\* value is the number of bytes that remain, it is kept as extrinsic_length
\* and the version byte is the next byte; otherwise the value is dropped,
\* extrinsic_length is null, the cursor goes back to offset 0 and the version
\* byte is byte 0 of the buffer.  A leading length that is invalid or missing
\* never makes the decode fail by itself.
C11_LeadingLength ==
    Processed("Extrinsic", 1) =>
        IF LengthPresent
        THEN /\ dec.extrinsic_length = IntV(LeadingValue)
             /\ Len(obj.data) > LeadingTotal =>
                   dec.version_info = StrV(hex(<<obj.data[LeadingTotal + 1]>>))
        ELSE /\ dec.extrinsic_length = NoneV
             /\ dec.version_info = StrV(hex(<<obj.data[1]>>))

\* the compact encoding of the number of bytes of the buffer
CompactOfLength ==
    IF Len(obj.data) < 64 THEN <<4 * Len(obj.data)>>
    ELSE <<(4 * Len(obj.data) + 1) % 256, (4 * Len(obj.data) + 1) \div 256>>

\* process() decoded a signed extrinsic up to its hash
Hashed == Processed("Extrinsic", 1) /\ dec.extrinsic_hash # NoneV

\* C12 as stated: behind a leading length the bytes hashed are the bytes
\* after the length; on the legacy path they are the compact encoding of the
\* number of bytes followed by the whole buffer.
C12_HashAfterPrefix ==
    Hashed =>
        IF LengthPresent
        THEN dec.extrinsic_hash =
                 blake2b(SubSeq(obj.data, LeadingTotal + 1, Len(obj.data)))
        ELSE dec.extrinsic_hash = blake2b(CompactOfLength \o obj.data)

\* C12 as amended: behind a leading length the bytes hashed are the whole
\* buffer, the length included; on the legacy path they are the compact
\* encoding of the number of bytes followed by the whole buffer.  Every
\* signed extrinsic whose signed fields decode has a hash.
C12_HashWithLength ==
    /\ Hashed =>
          /\ dec.contains_transaction
          /\ IF LengthPresent
             THEN dec.extrinsic_hash = blake2b(obj.data)
             ELSE dec.extrinsic_hash = blake2b(CompactOfLength \o obj.data)
    /\ (Processed("Extrinsic", 1) /\ dec.contains_transaction
          /\ dec.call_index # NoneV) => dec.extrinsic_hash # NoneV

\* a signed extrinsic behind a length of two bytes
C12_Witness ==
    /\ Hashed
    /\ LengthPresent
    /\ LeadingTotal = 2
    /\ dec.err = "none"
    /\ dec.result.extrinsic_hash = blake2b(obj.data)

-----------------------------------------------------------------------------
(* Claims about EventRecord and EventsDecoder, under SpecEvents *)

\* C13: EventRecord decode reads 1 phase byte; where the phase is 0 it then
\* reads a 4-byte little-endian extrinsic index; for every other phase it
\* reads nothing more and extrinsic_idx stays null.  In both cases the next
\* 2 bytes are the event-type index.
C13_EventPhase ==
    Processed("EventRecord", 1) =>
        /\ dec.phase = IntV(Big(obj.data[1]))
        /\ (obj.data[1] = 0 /\ Len(obj.data) >= 5) =>
              /\ dec.extrinsic_idx = IntV(from_bytes(SubSeq(obj.data, 2, 5)))
              /\ Len(obj.data) >= 7 =>
                    dec.type = StrV(hex(SubSeq(obj.data, 6, 7)))
        /\ (obj.data[1] = 0 /\ SubSeq(obj.data, 2, Len(obj.data)) = <<5, 0>>) =>
              dec.err = "BufferUnderrun"
        /\ obj.data[1] # 0 =>
              /\ dec.extrinsic_idx = NoneV
              /\ Len(obj.data) >= 3 =>
                    dec.type = StrV(hex(SubSeq(obj.data, 2, 3)))
        /\ (dec.err = "none" /\ obj.data[1] = 0) =>
              /\ dec.value.extrinsic_idx = dec.extrinsic_idx
              /\ dec.value.type = dec.type
              /\ dec.value.module_id = NameV(event_index_table[dec.type.v].module)

\* phase 0x00 and the index 0x05000000
C13_Witness ==
    /\ Processed("EventRecord", 7)
    /\ SubSeq(obj.data, 1, 5) = <<0, 5, 0, 0, 0>>
    /\ dec.err = "none"
    /\ dec.value.extrinsic_idx = IntV(<<5>>)

\* process() of the EventRecord decoded every argument of its event, from
\* the bytes put on the wire for them
ArgumentsDecoded ==
    /\ Processed("EventRecord", 1)
    /\ obj.events # << >>
    /\ obj.events[1].whole
    /\ dec.event.t = "name"
    /\ Len(dec.params) = Len(event_index_table[dec.type.v].args)

\* the bytes after the last argument of the event
AfterArguments == SubSeq(obj.data, Len(obj.events[1].wire) + 1, Len(obj.data))

\* C14: where the metadata has no version or one below 5, topics is the
\* empty sequence and no byte after the last argument is consumed, whatever
\* bytes follow; where it has a version of 5 or more, a Vec<Hash> is decoded
\* after the arguments and is topics.
C14_TopicsGate ==
    ArgumentsDecoded =>
        IF obj.version = NoneV \/ obj.version.index < 5
        THEN /\ dec.err = "none"
             /\ dec.topics = ListV(<< >>)
             /\ dec.value.topics = ListV(<< >>)
             /\ dec.c.offset = Len(obj.events[1].wire)
        ELSE IF /\ AfterArguments # << >>
                /\ Len(AfterArguments) >= 1 + 32 * (AfterArguments[1] \div 4)
        THEN /\ dec.err = "none"
             /\ dec.c.offset = Len(obj.events[1].wire) + 1
                                   + 32 * (AfterArguments[1] \div 4)
             /\ dec.topics.t = "list"
             /\ Len(dec.topics.v) = AfterArguments[1] \div 4
             /\ \A k \in 1..Len(dec.topics.v) :
                   dec.topics.v[k] =
                       StrV(<<48, 120>>
                            \o hex(SubSeq(AfterArguments, 32 * k - 30, 32 * k + 1)))
             /\ dec.value.topics = dec.topics
        ELSE dec.err = "BufferUnderrun"

\* metadata version 4 before the bytes of a vector of one hash
C14_Witness ==
    /\ ArgumentsDecoded
    /\ obj.version = MetadataVersion(4)
    /\ Len(AfterArguments) = 33
    /\ dec.value.topics = ListV(<< >>)
    /\ dec.c.offset = Len(obj.events[1].wire)

\* the count the vector of events starts with
EventCount == obj.data[1] \div 4

\* the events the count covers are on the wire and the metadata has them
EventsThere ==
    /\ EventCount <= Len(obj.events)
    /\ \A k \in 1..EventCount : hex(obj.events[k].type) \in DOMAIN event_index_table

\* C19: decoding a vector of events reads a compact count n and then exactly
\* n EventRecords in wire order; the result has exactly n entries, the k-th
\* entry (from 0) is the k-th record on the wire and has event_idx k.
C19_EventVector ==
    Processed("Events", 1) =>
        IF EventsThere
        THEN /\ dec.err = "none"
             /\ dec.value.t = "list"
             /\ Len(dec.value.v) = EventCount
             /\ dec.c.offset =
                    1 + Len(WireOf(SubSeq(obj.events, 1, EventCount), obj.version))
             /\ \A k \in 1..EventCount :
                   /\ dec.value.v[k].event_idx = IntV(Big(k - 1))
                   /\ dec.value.v[k].phase = IntV(Big(obj.events[k].phase))
                   /\ dec.value.v[k].type = StrV(hex(obj.events[k].type))
                   /\ dec.value.v[k].extrinsic_idx =
                          IF obj.events[k].phase = 0
                          THEN IntV(from_bytes(obj.events[k].index))
                          ELSE NoneV
        ELSE dec.err # "none"

\* three events that differ, and a count of three
C19_Witness ==
    /\ Processed("Events", 1)
    /\ EventCount = 3
    /\ dec.err = "none"
    /\ Len(dec.value.v) = 3
    /\ dec.value.v[1].type # dec.value.v[2].type
    /\ dec.value.v[2].type # dec.value.v[3].type
    /\ dec.value.v[3].event_idx = IntV(<<2>>)

-----------------------------------------------------------------------------
(* Bytes *)

\* the length a Bytes value starts with, and the bytes it announces
BytesLength == obj.data[1] \div 4
RawBytes == SubSeq(obj.data, 2, 1 + BytesLength)

\* C15: Bytes/String decode reads a compact length n, then exactly n raw
\* bytes; if those bytes are valid UTF-8 the value is the decoded text,
\* otherwise it is the lowercase hex string of the bytes prefixed with '0x';
\* the fallback does not raise.
C15_BytesTextOrHex ==
    (Processed("type", 1) /\ obj.type_string = "Bytes"
       /\ Len(obj.data) >= 1 + BytesLength) =>
        /\ dec.err = "none"
        /\ dec.c.offset = 1 + BytesLength
        /\ dec.value =
              IF Undecodable(Utf8From(RawBytes, 1))
              THEN StrV(<<48, 120>> \o hex(RawBytes))
              ELSE StrV(Utf8From(RawBytes, 1))

-----------------------------------------------------------------------------
(* LogDigest *)

\* the bytes after the index byte, and whether they start with the bytes p
AfterIndex == Tail(obj.data)
StartsWith(p) ==
    Len(AfterIndex) >= Len(p) /\ SubSeq(AfterIndex, 1, Len(p)) = p

\* the window of the bytes after the index byte a pattern keeps: the bytes
\* after the first skip, at most size of them
Window(skip, size) ==
    SubSeq(AfterIndex, skip + 1,
           IF skip + size < Len(AfterIndex) THEN skip + size ELSE Len(AfterIndex))

\* the ShardInfo of a window of 4 bytes
ShardInfoOf(w) ==
    [t |-> "dict",
     v |-> <<<<"num", IntV(from_bytes(SubSeq(w, 1, 2)))>>,
             <<"count", IntV(from_bytes(SubSeq(w, 3, 4)))>>>>]

\* what a match of one of the three patterns gives
HardcodedType ==
    /\ StartsWith(ShardPattern) =>
          /\ dec.log_type = "ShardInfoLog"
          /\ dec.c.data = Window(4, 4)
          /\ IF Len(Window(4, 4)) = 4
             THEN /\ dec.err = "none"
                  /\ dec.value = ShardInfoOf(Window(4, 4))
             ELSE dec.err = "BufferUnderrun"
    /\ StartsWith(U64Pattern) =>
          /\ dec.log_type = "U64"
          /\ dec.c.data = Window(4, 8)
          /\ IF Len(Window(4, 8)) = 8
             THEN /\ dec.err = "none"
                  /\ dec.value = IntV(from_bytes(Window(4, 8)))
             ELSE dec.err = "BufferUnderrun"
    /\ StartsWith(FinalityPattern) =>
          /\ dec.log_type = "Vec<(SessionKey, u64)>"
          /\ dec.c.data = Window(13, Len(obj.data))
          /\ dec.err = "none" =>
                /\ dec.value.t = "list"
                /\ Len(dec.value.v) = dec.c.data[1] \div 4
                /\ \A k \in 1..Len(dec.value.v) :
                      dec.value.v[k] =
                          [t |-> "dict",
                           v |-> <<<<"0", StrV(<<48, 120>> \o hex(SubSeq(
                                        dec.c.data, 40 * k - 38, 40 * k - 7)))>>,
                                   <<"1", IntV(from_bytes(SubSeq(
                                        dec.c.data, 40 * k - 6, 40 * k + 1)))>>>>]

\* no pattern matches the bytes after the index byte
NoPattern ==
    ~StartsWith(ShardPattern) /\ ~StartsWith(U64Pattern) /\ ~StartsWith(FinalityPattern)

\* with no match the variant the index byte names is decoded, on the cursor
\* after the index byte
NamedVariant ==
    NoPattern =>
        /\ dec.log_type = LogDigestList[obj.data[1] + 1]
        /\ dec.c.data = obj.data
        /\ (obj.data[1] = 0 /\ Len(AfterIndex) >= 4) =>
              /\ dec.err = "none"
              /\ dec.value = [t |-> "dict",
                              v |-> <<<<"sharding",
                                        ShardInfoOf(SubSeq(AfterIndex, 1, 4))>>>>]
              /\ dec.c.offset = 5
        /\ (obj.data[1] = 2 /\ AfterIndex = <<8, 65, 66>>) =>
              dec.value = StrV(<<65, 66>>) /\ dec.c.offset = 4
        /\ (obj.data[1] = 5 /\ Len(AfterIndex) = 72) =>
              /\ dec.err = "none"
              /\ dec.value.v[1] = <<"slot", IntV(from_bytes(SubSeq(AfterIndex, 1, 8)))>>
              /\ dec.value.v[2] =
                    <<"signature", StrV(hex(SubSeq(AfterIndex, 9, 72)))>>

-----------------------------------------------------------------------------
(* The signed fields of an extrinsic *)

\* the number of bytes of an address that starts with byte b, and of an era
AddressTotal(b) ==
    CASE b = 255 -> 33
      [] b = 252 -> 3
      [] b = 253 -> 5
      [] b = 254 -> 9
      [] OTHER -> 1
EraTotal(b) == IF b = 0 THEN 1 ELSE 2

\* the places in the buffer of the signature and of what follows it, in the
\* order of version 1 and in the order of versions 2 and 3
SignatureAt == VersionAt + 1 + AddressTotal(obj.data[VersionAt + 1])
NonceAtV1 == SignatureAt + 64
EraAtV1 == NonceAtV1 + CompactTotal(obj.data[NonceAtV1])
CallAtV1 == EraAtV1 + EraTotal(obj.data[EraAtV1])
EraAtV2 == SignatureAt + 64
NonceAtV2 == EraAtV2 + EraTotal(obj.data[EraAtV2])
TipAt == NonceAtV2 + CompactTotal(obj.data[NonceAtV2])
CallAtV2 == TipAt + CompactTotal(obj.data[TipAt])

\* the buffer read from place i on
CursorAt(i) == [data |-> obj.data, offset |-> i - 1]

\* a signed extrinsic of an accepted version was decoded
SignedDecoded ==
    /\ VersionRead
    /\ VersionByte \in {129, 130, 131}
    /\ dec.err = "none"

\* address, signature, Compact<u32> nonce, era, call index for 0x81;
\* address, signature, era, Compact<U64> nonce, Compact<Balance> tip, call
\* index for 0x82 and 0x83
SignedOrder ==
    SignedDecoded =>
        /\ dec.address.account_length = StrV(hex(<<obj.data[VersionAt + 1]>>))
        /\ dec.signature = StrV(hex(SubSeq(obj.data, SignatureAt, SignatureAt + 63)))
        /\ VersionByte = 129 =>
              /\ dec.nonce = process_type("Compact<u32>", CursorAt(NonceAtV1)).value
              /\ obj.data[NonceAtV1] % 4 = 0 =>
                    dec.nonce = IntV(Big(obj.data[NonceAtV1] \div 4))
              /\ dec.era = StrV(hex(SubSeq(obj.data, EraAtV1, CallAtV1 - 1)))
              /\ dec.tip = NoneV
              /\ dec.call_index = StrV(hex(SubSeq(obj.data, CallAtV1, CallAtV1 + 1)))
        /\ VersionByte \in {130, 131} =>
              /\ dec.era = StrV(hex(SubSeq(obj.data, EraAtV2, NonceAtV2 - 1)))
              /\ dec.nonce = process_type("Compact<U64>", CursorAt(NonceAtV2)).value
              /\ obj.data[NonceAtV2] % 4 = 0 =>
                    dec.nonce = IntV(Big(obj.data[NonceAtV2] \div 4))
              /\ dec.tip = process_type("Compact<Balance>", CursorAt(TipAt)).value
              /\ obj.data[TipAt] % 4 = 0 =>
                    dec.tip = IntV(Big(obj.data[TipAt] \div 4))
              /\ dec.call_index = StrV(hex(SubSeq(obj.data, CallAtV2, CallAtV2 + 1)))

\* the buffer with the version byte 0x82 in the place of 0x83, and 0x83 in
\* the place of 0x82
OtherVersion ==
    [obj.data EXCEPT ![VersionAt] = 261 - VersionByte]

\* process() on the same bytes under the other of the two versions
UnderOtherVersion ==
    ExtrinsicsDecoder_process(ExtrinsicsDecoder_init(OtherVersion))

\* the two records have the same entries and differ in the named ones at most
SameRecordBut(entries) ==
    /\ UnderOtherVersion.err = "none"
    /\ DOMAIN UnderOtherVersion.result = DOMAIN dec.result
    /\ \A entry \in DOMAIN dec.result \ entries :
          UnderOtherVersion.result[entry] = dec.result[entry]

-----------------------------------------------------------------------------
(* The call of an extrinsic *)

\* process() of the ExtrinsicsDecoder has read a call index
CallRead == Processed("Extrinsic", 1) /\ dec.call_index # NoneV

\* the place in the buffer of the first byte after the call index
AfterCall ==
    2 + (IF ~dec.contains_transaction THEN VersionAt + 1
         ELSE IF VersionByte = 129 THEN CallAtV1
         ELSE CallAtV2)

\* the call the metadata has for the call index read
DeclaredCall == call_index_table[dec.call_index.v]

RECURSIVE RawOf(_)
\* the hex of the bytes the entries of params were decoded from, in the
\* order of the entries
RawOf(params) ==
    IF params = << >> THEN << >>
    ELSE params[1].valueRaw.v \o RawOf(Tail(params))

\* C18: the call index read is looked up in the call-index table of the
\* metadata.  Absent, the decode fails (UnknownCall, the KeyError of the
\* lookup) and there is no record and no parameter.  Present, the arguments
\* are decoded one after another in declared order from the shared cursor:
\* on success params has one entry per declared argument, entry i has the
\* name and the type of the i-th declared argument, and the entries were
\* decoded from the bytes after the call index, each where the one before
\* it ended.
C18_CallLookup ==
    CallRead =>
        IF dec.call_index.v \notin DOMAIN call_index_table
        THEN /\ dec.err = "KeyError"
             /\ dec.result = NoneV
             /\ dec.params = << >>
             /\ dec.c.offset = AfterCall - 1
        ELSE /\ dec.err # "KeyError"
             /\ dec.call = NameV(DeclaredCall.name)
             /\ dec.call_module = NameV(DeclaredCall.module)
             /\ Len(dec.params) <= Len(DeclaredCall.args)
             /\ \A i \in 1..Len(dec.params) :
                   /\ dec.params[i].name = DeclaredCall.args[i].name
                   /\ dec.params[i].type = DeclaredCall.args[i].type
             /\ RawOf(dec.params)
                    = hex(SubSeq(obj.data, AfterCall, dec.c.offset))
             /\ dec.err = "none" =>
                   /\ Len(dec.params) = Len(DeclaredCall.args)
                   /\ dec.result # NoneV
                   /\ dec.result.params = dec.params
                   /\ dec.result.call_code = dec.call_index

\* balances.transfer(dest, value) of a signed extrinsic: two entries, dest
\* decoded from 3 bytes and value from the byte after them
C18_Witness ==
    /\ CallRead
    /\ dec.contains_transaction
    /\ dec.err = "none"
    /\ dec.call_index = StrV(hex(<<1, 0>>))
    /\ Len(dec.params) = 2
    /\ dec.params[1].name = "dest"
    /\ dec.params[1].valueRaw = StrV(hex(<<252, 1, 0>>))
    /\ dec.params[2].name = "value"
    /\ dec.params[2].value = IntV(<<2>>)

-----------------------------------------------------------------------------
(* Tables handed to one Struct or Enum *)

\* the table process() of the object made last has to use: the one handed
\* to its constructor, else the one of the class statement
TableOf(name) ==
    IF given(obj.args[name]) THEN obj.args[name].v
    ELSE ClassAttributes[obj.class][name]

\* a ShardInfo of num and count
ShardInfoValue(num, count) ==
    [t |-> "dict", v |-> <<<<"num", IntV(Big(num))>>, <<"count", IntV(Big(count))>>>>]

\* C20: a type_mapping or value_list handed to one Struct or Enum (`if
\* type_mapping:`, a table with entries) is the table of that object only.
\* The tables of the classes are never changed, and an object made without
\* a table, before or after objects that were given one, decodes with the
\* table of its class.
C20_OverrideScoped ==
    /\ cls = ClassAttributes
    /\ Processed("Struct", 0) =>
          /\ dec = Struct_process(ScaleBytes(obj.data), TableOf("type_mapping"))
          /\ (obj.data = <<1, 0, 2, 0>> /\ ~given(obj.args.type_mapping)) =>
                dec.value = ShardInfoValue(1, 2)
          /\ (obj.data = <<1, 0, 2, 0>>
                /\ obj.args.type_mapping = ListV(<<<<"a", "u8">>>>)) =>
                dec.value = [t |-> "dict", v |-> <<<<"a", IntV(<<1>>)>>>>]
    /\ Processed("Enum", 0) =>
          /\ dec = Enum_process(ScaleBytes(obj.data), TableOf("value_list"),
                                TableOf("type_mapping"))
          /\ (obj.data = <<2>> /\ obj.class = "RewardDestination"
                /\ ~given(obj.args.type_mapping)) =>
                dec.value = IF given(obj.args.value_list)
                            THEN NoneV ELSE NameV("Controller")
          /\ (obj.data = <<1, 0, 2, 0>> /\ ~given(obj.args.type_mapping)
                /\ obj.args.value_list = ListV(<<"A", "B">>)) =>
                dec.value = NameV("B")

\* a ShardInfo decoded with the table of its class after a ShardInfo that
\* was given a table of its own
C20_Witness ==
    /\ Processed("Struct", 4)
    /\ "ShardInfo" \in obj.earlier
    /\ ~given(obj.args.type_mapping)
    /\ obj.data = <<1, 0, 2, 0>>
    /\ dec.value = ShardInfoValue(1, 2)
    /\ cls = ClassAttributes

-----------------------------------------------------------------------------
(* The bytes a Compact keeps *)

CompactTypes == {"Compact", "Compact<U32>", "Compact<U64>", "Compact<Balance>"}

\* process() of a Compact, made by its class or through the registry, has
\* run on a buffer that holds the whole encoding
CompactProcessed ==
    /\ \/ Processed("CompactU32", 1)
       \/ Processed("type", 1) /\ obj.type_string \in CompactTypes
    /\ Len(obj.data) >= CompactTotal(obj.data[1])

\* the bytes the cursor advanced over
CompactSpan == SubSeq(obj.data, 1, CompactTotal(obj.data[1]))

\* C21 as stated: in every mode the compact payload kept is the first byte
\* followed by its continuation bytes, the bytes the cursor advanced over,
\* and with no sub-type this span is what the decode returns.
C21_FullSpanKept ==
    CompactProcessed =>
        /\ dec.c.offset = Len(CompactSpan)
        /\ dec.compact_bytes = CompactSpan
        /\ obj.type_string = "Compact" =>
              dec.err = "none" /\ dec.value = BytesV(CompactSpan)

\* C21 as amended: in modes 0, 1 and 2 the compact payload kept is the first
\* byte followed by its continuation bytes, the bytes the cursor advanced
\* over; in mode 3 it is the continuation bytes only, the first byte is left
\* out.  With no sub-type the payload kept is what the decode returns.
C21_SpanKeptButMode3 ==
    CompactProcessed =>
        /\ dec.c.offset = Len(CompactSpan)
        /\ dec.compact_bytes =
              IF obj.data[1] % 4 = 3 THEN Tail(CompactSpan) ELSE CompactSpan
        /\ obj.type_string = "Compact" =>
              dec.err = "none" /\ dec.value = BytesV(dec.compact_bytes)

\* a Compact without sub-type on the mode 3 encoding of 5 bytes: the 4 bytes
\* after the first are returned
C21_Witness ==
    /\ CompactProcessed
    /\ obj.type_string = "Compact"
    /\ obj.data[1] = 3
    /\ Len(obj.data) = 6
    /\ dec.c.offset = 5
    /\ dec.value = BytesV(SubSeq(obj.data, 2, 5))

-----------------------------------------------------------------------------
(* The hash with and without the length on the wire *)

\* process() decoded the buffer as a signed extrinsic without a length
\* before it, up to its hash
LegacyHashed == Hashed /\ dec.extrinsic_length = NoneV

\* process() on the same extrinsic with the compact encoding of its number
\* of bytes before it
Prefixed ==
    ExtrinsicsDecoder_process(ExtrinsicsDecoder_init(CompactOfLength \o obj.data))

-----------------------------------------------------------------------------
(* Compact with an unsigned integer as sub-type, beside Compact<u32> *)

\* process() of a Compact with an unsigned integer as sub-type has run on a
\* buffer that holds the whole encoding
CompactOfUIntProcessed ==
    /\ Processed("type", 1)
    /\ obj.type_string \in CompactTypes \ {"Compact"}
    /\ Len(obj.data) >= CompactTotal(obj.data[1])

\* Compact<u32> on the same bytes
AsCompactU32 == CompactU32_process(ScaleBytes(obj.data))

\* C23: Compact with an unsigned integer as sub-type returns on every
\* compact encoding the integer Compact<u32> returns on the same bytes and
\* consumes as many bytes; the width of the sub-type neither truncates the
\* value nor makes the decode fail for lack of bytes.
C23_SameAsCompactU32 ==
    CompactOfUIntProcessed =>
        /\ AsCompactU32.err = "none"
        /\ dec.err = "none"
        /\ dec.value = AsCompactU32.value
        /\ dec.c.offset = AsCompactU32.c.offset

=============================================================================
